---- MODULE Spec2Model ----
(***************************************************************************)
(* Verification model of mcp-project-context: the ProjectAnalyzer cache    *)
(* (src/src/analyzer.ts), the ContextBuilder request pipeline and its      *)
(* relevance ranking (src/src/context-builder.ts).                         *)
(*                                                                         *)
(* Text is modelled as it is in the program: a string is a sequence of     *)
(* one-character strings, and every string operation the program uses      *)
(* (toLowerCase, includes, split, trim, RegExp matching) is an operator    *)
(* computed on those sequences.                                            *)
(***************************************************************************)
EXTENDS Integers, Sequences, FiniteSets, TLC

(***************************************************************************)
(* Strings                                                                 *)
(***************************************************************************)

UpperCase == <<"A","B","C","D","E","F","G","H","I","J","K","L","M",
               "N","O","P","Q","R","S","T","U","V","W","X","Y","Z">>
LowerCase == <<"a","b","c","d","e","f","g","h","i","j","k","l","m",
               "n","o","p","q","r","s","t","u","v","w","x","y","z">>
Digits == <<"0","1","2","3","4","5","6","7","8","9">>

Range(s) == {s[i] : i \in 1..Len(s)}

\* \s of a JavaScript regular expression, and the characters trim() removes
WhiteSpace == {" ", "\t", "\n", "\r"}

\* \w of a JavaScript regular expression
WordChars == Range(UpperCase) \cup Range(LowerCase) \cup Range(Digits) \cup {"_"}

\* The sequence f with every element computed once.  [i \in 1..n |-> e] is
\* the same sequence, but its elements are computed again at every use.
seq(f) == f \o <<>>

toLowerChar(c) ==
  IF \E i \in 1..26 : UpperCase[i] = c
    THEN LowerCase[CHOOSE i \in 1..26 : UpperCase[i] = c]
    ELSE c

\* String.prototype.toLowerCase
toLowerCase(s) == seq([i \in 1..Len(s) |-> toLowerChar(s[i])])

\* s.startsWith(sub, i - 1), positions counted from 1
startsWithAt(s, sub, i) ==
  /\ i >= 1
  /\ i + Len(sub) - 1 <= Len(s)
  /\ \A k \in 1..Len(sub) : s[i + k - 1] = sub[k]

\* String.prototype.startsWith
startsWith(s, sub) == startsWithAt(s, sub, 1)

\* String.prototype.endsWith
endsWith(s, sub) == startsWithAt(s, sub, Len(s) - Len(sub) + 1)

\* String.prototype.includes
includes(s, sub) == \E i \in 1..(Len(s) - Len(sub) + 1) : startsWithAt(s, sub, i)

\* first position >= from where sub occurs in s, 0 when there is none
indexOfFrom(s, sub, from) ==
  LET hits == {i \in from..(Len(s) - Len(sub) + 1) : startsWithAt(s, sub, i)}
  IN  IF hits = {} THEN 0 ELSE CHOOSE i \in hits : \A j \in hits : i <= j

\* s.substring(i - 1): the suffix that starts at position i
suffixFrom(s, i) == SubSeq(s, i, Len(s))

\* String.prototype.trim
trim(s) ==
  LET keep  == {i \in 1..Len(s) : s[i] \notin WhiteSpace}
      first == CHOOSE i \in keep : \A j \in keep : i <= j
      last  == CHOOSE i \in keep : \A j \in keep : i >= j
  IN  IF keep = {} THEN <<>> ELSE SubSeq(s, first, last)

\* s.split(sep) for a one-character separator: always at least one piece
RECURSIVE split(_, _)
\* the pieces of s when i is the first position of the separator, 0 for none
splitAt(s, sep, i) ==
  IF i = 0 THEN <<s>>
  ELSE <<SubSeq(s, 1, i - 1)>> \o split(suffixFrom(s, i + 1), sep)

split(s, sep) == splitAt(s, sep, indexOfFrom(s, <<sep>>, 1))

\* number of leading characters of s, from position i on, that are in cs
RECURSIVE spanLen(_, _, _)
spanLen(s, i, cs) ==
  IF i <= Len(s) /\ s[i] \in cs THEN 1 + spanLen(s, i + 1, cs) ELSE 0

\* s.split(/\s+/): pieces between maximal runs of white space
RECURSIVE splitWhitespace(_)
splitWhitespace(s) ==
  LET ws == {i \in 1..Len(s) : s[i] \in WhiteSpace}
      i  == CHOOSE k \in ws : \A j \in ws : k <= j
  IN  IF ws = {} THEN <<s>>
      ELSE <<SubSeq(s, 1, i - 1)>>
             \o splitWhitespace(suffixFrom(s, i + spanLen(s, i, WhiteSpace)))

\* Array.prototype.join
RECURSIVE join(_, _)
join(parts, sep) ==
  IF Len(parts) = 0 THEN <<>>
  ELSE IF Len(parts) = 1 THEN parts[1]
  ELSE parts[1] \o sep \o join(Tail(parts), sep)

\* Array.prototype.slice(0, n)
slice0(s, n) == SubSeq(s, 1, IF Len(s) < n THEN Len(s) ELSE n)

\* Number -> decimal string, as template literals and String() render it
RECURSIVE toDecimal(_)
toDecimal(n) ==
  IF n < 10 THEN <<Digits[n + 1]>>
  ELSE toDecimal(n \div 10) \o <<Digits[(n % 10) + 1]>>

(***************************************************************************)
(* ProjectAnalyzer: lexical fact extraction (src/src/analyzer.ts)          *)
(***************************************************************************)

\* number of leading characters of s, from position i on, that are not in cs
RECURSIVE spanLenNot(_, _, _)
spanLenNot(s, i, cs) ==
  IF i <= Len(s) /\ s[i] \notin cs THEN 1 + spanLenNot(s, i + 1, cs) ELSE 0

\* the position after the longest run, from position i on, of characters in cs
after(s, i, cs) == i + spanLen(s, i, cs)

\* the position after the longest run, from position i on, of characters not in cs
afterNot(s, i, cs) == i + spanLenNot(s, i, cs)

Quotes == {"'", "\""}

NoMatch == [ok |-> FALSE]

\* the last position of character c in s, 0 when there is none
lastIndexOf(s, c) ==
  IF \E i \in 1..Len(s) : s[i] = c
    THEN CHOOSE i \in 1..Len(s) : s[i] = c /\ \A j \in (i + 1)..Len(s) : s[j] # c
    ELSE 0

\* the extension of a path whose last "." is at dot and last "/" at slash
extnameAt(p, dot, slash) ==
  IF dot = 0 \/ dot <= slash + 1 THEN <<>> ELSE suffixFrom(p, dot)

\* path.extname
extname(p) == extnameAt(p, lastIndexOf(p, "."), lastIndexOf(p, "/"))

\* the switch of detectLanguage
languageOf(ext) ==
  CASE ext \in {<<".","t","s">>, <<".","t","s","x">>} -> "typescript"
    [] ext \in {<<".","j","s">>, <<".","j","s","x">>} -> "javascript"
    [] ext = <<".","p","y">> -> "python"
    [] OTHER -> "other"

\* path.extname(filePath).toLowerCase() followed by the switch
detectLanguage(filePath) == languageOf(toLowerCase(extname(filePath)))

\* ['"]([^'"]+)['"];? tried at position o, when what precedes it was found
quotedPathAt(s, found, o) ==
  LET c == afterNot(s, o + 1, Quotes)
  IN  IF /\ found
         /\ o <= Len(s) /\ s[o] \in Quotes
         /\ c > o + 1
         /\ c <= Len(s) /\ s[c] \in Quotes
      THEN [ok |-> TRUE, path |-> SubSeq(s, o + 1, c - 1),
            end |-> IF c + 1 <= Len(s) /\ s[c + 1] = ";" THEN c + 2 ELSE c + 1]
      ELSE NoMatch

\* The tail shared by the import patterns, tried at position q:
\*   \s+from\s+['"]([^'"]+)['"];?
matchFromClause(s, q) ==
  LET f == after(s, q, WhiteSpace)
      o == after(s, f + 4, WhiteSpace)
  IN  quotedPathAt(s, f > q /\ startsWithAt(s, <<"f","r","o","m">>, f) /\ o > f + 4, o)

\* names.split(',').map(imp => imp.trim())
splitNames(names) ==
  LET parts == split(names, ",") IN seq([k \in 1..Len(parts) |-> trim(parts[k])])

\* the match of an import statement whose from clause matched as m
importOf(m, names, isDefault) ==
  IF m.ok
    THEN [ok |-> TRUE, end |-> m.end,
          rec |-> [path |-> trim(m.path), imports |-> names, isDefault |-> isDefault]]
    ELSE NoMatch

\* (\w+) from p to e, then the from clause
defaultImportAt(s, p, e) ==
  importOf(matchFromClause(s, e), <<trim(SubSeq(s, p, e - 1))>>, TRUE)

\* {([^}]+)} from p, its "}" at bc, then the from clause
namedImportAt(s, p, bc) ==
  IF bc > p + 1 /\ bc <= Len(s)
    THEN importOf(matchFromClause(s, bc + 1), splitNames(SubSeq(s, p + 1, bc - 1)), FALSE)
    ELSE NoMatch

\* (\*\s+as\s+\w+) from p, its name from a to e, then the from clause
namespaceNamed(s, p, found, a, e) ==
  IF found /\ e > a
    THEN importOf(matchFromClause(s, e), <<trim(SubSeq(s, p, e - 1))>>, FALSE)
    ELSE NoMatch

namespaceImportAt(s, p) ==
  LET sa == after(s, p + 1, WhiteSpace)
      a  == after(s, sa + 2, WhiteSpace)
  IN  namespaceNamed(s, p, sa > p + 1 /\ startsWithAt(s, <<"a","s">>, sa) /\ a > sa + 2,
                     a, after(s, a, WordChars))

\* (?:(\w+)|{([^}]+)}|(\*\s+as\s+\w+)) tried at position p
importBindingAt(s, p) ==
  IF p > Len(s) THEN NoMatch
  ELSE IF s[p] \in WordChars THEN defaultImportAt(s, p, after(s, p, WordChars))
  ELSE IF s[p] = "{" THEN namedImportAt(s, p, afterNot(s, p + 1, {"}"}))
  ELSE IF s[p] = "*" THEN namespaceImportAt(s, p)
  ELSE NoMatch

\* importRegex tried at position i:
\*   import\s+(?:(\w+)|{([^}]+)}|(\*\s+as\s+\w+))\s+from\s+['"]([^'"]+)['"];?
matchImportAt(s, i) ==
  LET p == after(s, i + 6, WhiteSpace)
  IN  IF startsWithAt(s, <<"i","m","p","o","r","t">>, i) /\ p > i + 6
        THEN importBindingAt(s, p) ELSE NoMatch

\* ['"]([^'"]+)['"]\);? tried at position o, when what precedes it was found
requirePathAt(s, found, o, names, isDefault) ==
  LET c == afterNot(s, o + 1, Quotes)
  IN  IF /\ found
         /\ o <= Len(s) /\ s[o] \in Quotes
         /\ c > o + 1
         /\ c + 1 <= Len(s) /\ s[c] \in Quotes /\ s[c + 1] = ")"
      THEN [ok |-> TRUE,
            end |-> IF c + 2 <= Len(s) /\ s[c + 2] = ";" THEN c + 3 ELSE c + 2,
            rec |-> [path |-> trim(SubSeq(s, o + 1, c - 1)), imports |-> names,
                     isDefault |-> isDefault]]
      ELSE NoMatch

\* \s*=\s*require\( tried at position a, then the path
requireCallAt(s, a, names, isDefault) ==
  LET e == after(s, a, WhiteSpace)
      r == after(s, e + 1, WhiteSpace)
  IN  requirePathAt(s, /\ e <= Len(s) /\ s[e] = "="
                       /\ startsWithAt(s, <<"r","e","q","u","i","r","e","(">>, r),
                    r + 8, names, isDefault)

\* {([^}]+)} from p, its "}" at bc, then the call
braceRequireAt(s, p, bc) ==
  IF bc > p + 1 /\ bc <= Len(s)
    THEN requireCallAt(s, bc + 1, splitNames(SubSeq(s, p + 1, bc - 1)), FALSE)
    ELSE NoMatch

\* (\w+) from p to e, then the call
wordRequireAt(s, p, e) == requireCallAt(s, e, <<trim(SubSeq(s, p, e - 1))>>, TRUE)

\* (?:(\w+)|{([^}]+)}) tried at position p
requireBindingAt(s, p) ==
  IF p > Len(s) THEN NoMatch
  ELSE IF s[p] \in WordChars THEN wordRequireAt(s, p, after(s, p, WordChars))
  ELSE IF s[p] = "{" THEN braceRequireAt(s, p, afterNot(s, p + 1, {"}"}))
  ELSE NoMatch

\* requireRegex tried at position i:
\*   (?:const|let|var)\s+(?:(\w+)|{([^}]+)})\s*=\s*require\(['"]([^'"]+)['"]\);?
matchRequireAt(s, i) ==
  LET kw == IF startsWithAt(s, <<"c","o","n","s","t">>, i) THEN 5
            ELSE IF startsWithAt(s, <<"l","e","t">>, i) \/ startsWithAt(s, <<"v","a","r">>, i)
              THEN 3 ELSE 0
      p  == after(s, i + kw, WhiteSpace)
  IN  IF kw > 0 /\ p > i + kw THEN requireBindingAt(s, p) ELSE NoMatch

\* the loop  while ((match = importRegex.exec(content)) !== null)  from position i
RECURSIVE esImportsFrom(_, _)
esImportsFrom(s, i) ==
  IF i > Len(s) THEN <<>>
  ELSE LET m == matchImportAt(s, i)
       IN  IF m.ok THEN <<m.rec>> \o esImportsFrom(s, m.end)
           ELSE esImportsFrom(s, i + 1)

\* the loop  while ((match = requireRegex.exec(content)) !== null)  from position i
RECURSIVE requireImportsFrom(_, _)
requireImportsFrom(s, i) ==
  IF i > Len(s) THEN <<>>
  ELSE LET m == matchRequireAt(s, i)
       IN  IF m.ok THEN <<m.rec>> \o requireImportsFrom(s, m.end)
           ELSE requireImportsFrom(s, i + 1)

\* line terminators: what "." never matches and where ^ and $ match under /m
LineTerminators == {"\n", "\r"}

\* (?:from\s+(\S+)\s+)? tried at position i: whether the group matched, where
\* it ends and the module it captured
pyFromAt(s, i) ==
  LET fp == after(s, i + 4, WhiteSpace)
      fe == afterNot(s, fp, WhiteSpace)
      k  == after(s, fe, WhiteSpace)
  IN  IF startsWithAt(s, <<"f","r","o","m">>, i) /\ fp > i + 4 /\ fe > fp /\ k > fe
        THEN [has |-> TRUE, end |-> k, module |-> SubSeq(s, fp, fe - 1)]
        ELSE [has |-> FALSE, end |-> i, module |-> <<>>]

\* the match whose (.+) took the items parts and ended at e
pyImportRecord(from, e, parts) ==
  [ok |-> TRUE, end |-> e,
   rec |-> [path |-> trim(IF from.has THEN from.module ELSE trim(parts[1])),
            imports |-> seq([j \in 1..Len(parts) |-> trim(parts[j])]),
            isDefault |-> FALSE]]

\* (.+)$ from b0 to the end of the line at e
pyImportItems(s, from, b0, e) ==
  pyImportRecord(from, e, split(SubSeq(s, b0, e - 1), ","))

\* import\s+(.+)$ tried at position k, the white space ending before z
pyImportAt(s, from, k, z) ==
  LET w    == z - (k + 6)
      \* \s+ is greedy and gives characters back until (.+) can take one
      back == {b \in (k + 7)..(k + 5 + w) : s[b] \notin LineTerminators}
      b0   == IF z <= Len(s) THEN z
              ELSE IF back = {} THEN 0
              ELSE CHOOSE b \in back : \A c \in back : b >= c
  IN  IF startsWithAt(s, <<"i","m","p","o","r","t">>, k) /\ w >= 1 /\ b0 > 0
        THEN pyImportItems(s, from, b0, afterNot(s, b0, LineTerminators))
        ELSE NoMatch

pyImportAfter(s, from) == pyImportAt(s, from, from.end, after(s, from.end + 6, WhiteSpace))

\* Python importRegex tried at a line start i:
\*   /^(?:from\s+(\S+)\s+)?import\s+(.+)$/gm
matchPyImportAt(s, i) ==
  IF i = 1 \/ s[i - 1] \in LineTerminators
    THEN pyImportAfter(s, pyFromAt(s, i)) ELSE NoMatch

RECURSIVE pyImportsFrom(_, _)
pyImportsFrom(s, i) ==
  IF i > Len(s) THEN <<>>
  ELSE LET m == matchPyImportAt(s, i)
       IN  IF m.ok THEN <<m.rec>> \o pyImportsFrom(s, m.end)
           ELSE pyImportsFrom(s, i + 1)

extractImports(content, language) ==
  IF language \in {"typescript", "javascript"}
    THEN esImportsFrom(content, 1) \o requireImportsFrom(content, 1)
  ELSE IF language = "python" THEN pyImportsFrom(content, 1)
  ELSE <<>>

\* smallest member of a non-empty set of positions
minPos(S) == CHOOSE i \in S : \A j \in S : i <= j

KwFunction == <<"f","u","n","c","t","i","o","n">>
KwClass == <<"c","l","a","s","s">>
KwInterface == <<"i","n","t","e","r","f","a","c","e">>
KwType == <<"t","y","p","e">>
KwExport == <<"e","x","p","o","r","t">>
KwVariable == {<<"c","o","n","s","t">>, <<"l","e","t">>, <<"v","a","r">>}

\* content.split('\n') with every line trimmed
trimmedLines(content) ==
  LET lines == split(content, "\n") IN seq([k \in 1..Len(lines) |-> trim(lines[k])])

\* \s+(\w+) tried at position k
exportedNameAt(t, k) ==
  LET a == after(t, k, WhiteSpace)
      e == after(t, a, WordChars)
  IN  IF a > k /\ e > a THEN [ok |-> TRUE, name |-> SubSeq(t, a, e - 1)] ELSE NoMatch

\* KW\s+(\w+) tried at position q, KW one of kws
exportKeywordAt(t, q, kws) ==
  LET ks == {kw \in kws : startsWithAt(t, kw, q)}
  IN  IF ks = {} THEN NoMatch ELSE exportedNameAt(t, q + Len(CHOOSE kw \in ks : TRUE))

\* export\s+(?:async\s+)?KW\s+(\w+) tried at position i, KW one of kws
exportNameAt(t, i, kws, allowAsync) ==
  LET p == after(t, i + 6, WhiteSpace)
      q == after(t, p + 5, WhiteSpace)
  IN  IF startsWithAt(t, KwExport, i) /\ p > i + 6
        THEN exportKeywordAt(t, IF allowAsync /\ startsWithAt(t, <<"a","s","y","n","c">>, p) /\ q > p + 5
                                  THEN q ELSE p,
                             kws)
        ELSE NoMatch

\* trimmed.match(/export\s+(?:async\s+)?KW\s+(\w+)/): the leftmost match
exportNameMatch(t, kws, allowAsync) ==
  LET hits == {i \in 1..Len(t) : exportNameAt(t, i, kws, allowAsync).ok}
  IN  IF hits = {} THEN NoMatch ELSE exportNameAt(t, minPos(hits), kws, allowAsync)


\* which branch of the if/else chain of extractExports a trimmed line takes
exportKindOf(t) ==
  LET sp == <<" ">>
  IN  IF startsWith(t, KwExport \o sp \o KwFunction \o sp)
           \/ startsWith(t, KwExport \o <<" ","a","s","y","n","c"," ">> \o KwFunction \o sp)
        THEN [type |-> "function", kws |-> {KwFunction}, allowAsync |-> TRUE]
      ELSE IF startsWith(t, KwExport \o sp \o KwClass \o sp)
        THEN [type |-> "class", kws |-> {KwClass}, allowAsync |-> FALSE]
      ELSE IF startsWith(t, KwExport \o sp \o KwInterface \o sp)
        THEN [type |-> "interface", kws |-> {KwInterface}, allowAsync |-> FALSE]
      ELSE IF startsWith(t, KwExport \o sp \o KwType \o sp)
        THEN [type |-> "type", kws |-> {KwType}, allowAsync |-> FALSE]
      ELSE IF \E kw \in KwVariable :
                LET w == spanLen(t, 7, WhiteSpace)
                IN  /\ startsWith(t, KwExport) /\ w >= 1
                    /\ startsWithAt(t, kw, 7 + w)
                    /\ spanLen(t, 7 + w + Len(kw), WhiteSpace) >= 1
        THEN [type |-> "const", kws |-> KwVariable, allowAsync |-> FALSE]
      ELSE IF startsWith(t, KwExport \o <<" ","d","e","f","a","u","l","t"," ">>)
        THEN [type |-> "default", kws |-> {}, allowAsync |-> FALSE]
      ELSE [type |-> "none", kws |-> {}, allowAsync |-> FALSE]

\* the export record of a name match: a sequence of zero or one record
exportRecord(m, type, lineNo) ==
  IF m.ok THEN <<[name |-> m.name, type |-> type, line |-> lineNo]>> ELSE <<>>

\* the export record of one trimmed line: a sequence of zero or one record
exportOfKind(t, lineNo, kind) ==
  IF kind.type = "none" THEN <<>>
  ELSE IF kind.type = "default"
    THEN <<[name |-> <<"d","e","f","a","u","l","t">>, type |-> "default", line |-> lineNo]>>
  ELSE exportRecord(exportNameMatch(t, kind.kws, kind.allowAsync), kind.type, lineNo)

\* the export record of one trimmed line: a sequence of zero or one record
exportOfLine(t, lineNo) == exportOfKind(t, lineNo, exportKindOf(t))

\* concatenation of perLine(line, lineNo) over the lines, in order
RECURSIVE flatMapLines(_, _, _)
flatMapLines(lines, k, perLine) ==
  IF k > Len(lines) THEN <<>>
  ELSE perLine[k] \o flatMapLines(lines, k + 1, perLine)

extractExports(content, language) ==
  IF language \in {"typescript", "javascript"}
    THEN LET lines == trimmedLines(content)
         IN  flatMapLines(lines, 1, [k \in 1..Len(lines) |-> exportOfLine(lines[k], k)])
    ELSE <<>>

\* \s*\(([^)]*)\) tried at position q, after the name
functionParamsAt(t, name, q) ==
  LET z == afterNot(t, q + 1, {")"})
  IN  IF q <= Len(t) /\ t[q] = "(" /\ z <= Len(t)
        THEN [ok |-> TRUE, name |-> name, paramsStr |-> SubSeq(t, q + 1, z - 1)]
        ELSE NoMatch

\* function\s+(\w+)\s*\(([^)]*)\) tried at position f
functionCoreAt(t, f) ==
  LET a == after(t, f + 8, WhiteSpace)
      e == after(t, a, WordChars)
  IN  IF startsWithAt(t, KwFunction, f) /\ a > f + 8 /\ e > a
        THEN functionParamsAt(t, SubSeq(t, a, e - 1), after(t, e, WhiteSpace))
        ELSE NoMatch

\* trimmed.match(/(?:export\s+)?(?:async\s+)?function\s+(\w+)\s*\(([^)]*)\)/)
functionMatch(t) ==
  LET hits == {f \in 1..Len(t) : functionCoreAt(t, f).ok}
  IN  IF hits = {} THEN NoMatch ELSE functionCoreAt(t, minPos(hits))

\* \([^)]*\)\s*=> tried at position x
parenArrowAt(t, x) ==
  LET m == spanLenNot(t, x + 1, {")"})
      y == x + m + 2
  IN  /\ x <= Len(t) /\ t[x] = "("
      /\ x + 1 + m <= Len(t)
      /\ startsWithAt(t, <<"=", ">">>, y + spanLen(t, y, WhiteSpace))

\* =\s*(?:async\s+)?(?:\([^)]*\)|[^=]+)\s*=> tried at position e, after the name
arrowBodyAt(t, name, e) ==
  LET q  == after(t, e + 1, WhiteSpace)
      qa == after(t, q + 5, WhiteSpace)
      z  == afterNot(t, e + 1, {"="})
  IN  IF /\ e <= Len(t) /\ t[e] = "="
         /\ \/ startsWithAt(t, <<"a","s","y","n","c">>, q) /\ qa > q + 5 /\ parenArrowAt(t, qa)
            \/ parenArrowAt(t, q)
            \/ (z > e + 1 /\ startsWithAt(t, <<"=", ">">>, z))
      THEN [ok |-> TRUE, name |-> name]
      ELSE NoMatch

\* \s+(\w+)\s* tried at position p, after the keyword
arrowNameAt(t, p) ==
  LET a == after(t, p, WhiteSpace)
      e == after(t, a, WordChars)
  IN  IF a > p /\ e > a
        THEN arrowBodyAt(t, SubSeq(t, a, e - 1), after(t, e, WhiteSpace))
        ELSE NoMatch

\* (?:const|let|var)\s+(\w+)\s*=\s*(?:async\s+)?(?:\([^)]*\)|[^=]+)\s*=> at position k
arrowCoreAt(t, k) ==
  LET ks == {kw \in KwVariable : startsWithAt(t, kw, k)}
  IN  IF ks = {} THEN NoMatch ELSE arrowNameAt(t, k + Len(CHOOSE kw \in ks : TRUE))

\* trimmed.match(/(?:export\s+)?(?:const|let|var)\s+(\w+)\s*=\s*...=>/)
arrowMatch(t) ==
  LET hits == {k \in 1..Len(t) : arrowCoreAt(t, k).ok}
  IN  IF hits = {} THEN NoMatch ELSE arrowCoreAt(t, minPos(hits))

\* the records of the function declaration fm and the arrow function am
functionRecords(t, lineNo, fm, am) ==
  LET rec(name, params) ==
        [name |-> name, startLine |-> lineNo, endLine |-> lineNo, params |-> params,
         isAsync |-> includes(t, <<"a","s","y","n","c">>),
         isExported |-> includes(t, KwExport)]
  IN  (IF fm.ok
         THEN <<rec(fm.name, IF fm.paramsStr = <<>> THEN <<>> ELSE splitNames(fm.paramsStr))>>
         ELSE <<>>)
      \o (IF am.ok THEN <<rec(am.name, <<>>)>> ELSE <<>>)

functionsOfLine(t, lineNo) == functionRecords(t, lineNo, functionMatch(t), arrowMatch(t))

extractFunctions(content, language) ==
  IF language \in {"typescript", "javascript"}
    THEN LET lines == trimmedLines(content)
         IN  flatMapLines(lines, 1, [k \in 1..Len(lines) |-> functionsOfLine(lines[k], k)])
    ELSE <<>>

\* (?:\s+extends\s+(\w+))? tried at position e: where the group ends and what
\* it captured
extendsClauseAt(t, e) ==
  LET x == after(t, e, WhiteSpace)
      a == after(t, x + 7, WhiteSpace)
      z == after(t, a, WordChars)
  IN  IF x > e /\ startsWithAt(t, <<"e","x","t","e","n","d","s">>, x) /\ a > x + 7 /\ z > a
        THEN [end |-> z, name |-> <<SubSeq(t, a, z - 1)>>]
        ELSE [end |-> e, name |-> <<>>]

\* ([^{]+) after  implements\s+ , the white space iw long and ending before i2
implementsNames(t, found, i2, iw) ==
  \* \s+ gives one character back when nothing but "{" or the end follows
  LET i3 == IF i2 <= Len(t) /\ t[i2] # "{" THEN i2
            ELSE IF iw >= 2 THEN i2 - 1 ELSE 0
  IN  IF found /\ i3 > 0
        THEN <<splitNames(SubSeq(t, i3, afterNot(t, i3, {"{"}) - 1))>>
        ELSE <<>>

\* (?:\s+implements\s+([^{]+))? tried at position b: what it captured
implementsClauseAt(t, b) ==
  LET i1 == after(t, b, WhiteSpace)
      i2 == after(t, i1 + 10, WhiteSpace)
  IN  implementsNames(t, i1 > b /\ startsWithAt(t, <<"i","m","p","l","e","m","e","n","t","s">>, i1) /\ i2 > i1 + 10,
                      i2, i2 - (i1 + 10))

\* the match of a class named name, its extends clause matched as ext
classClauses(t, name, ext) ==
  [ok |-> TRUE, name |-> name, extends |-> ext.name,
   implements |-> implementsClauseAt(t, ext.end)]

\* class\s+(\w+)(?:\s+extends\s+(\w+))?(?:\s+implements\s+([^{]+))? at position c;
\* an absent group is the empty sequence, a present one a one-element sequence
classCoreAt(t, c) ==
  LET a == after(t, c + 5, WhiteSpace)
      e == after(t, a, WordChars)
  IN  IF startsWithAt(t, KwClass, c) /\ a > c + 5 /\ e > a
        THEN classClauses(t, SubSeq(t, a, e - 1), extendsClauseAt(t, e))
        ELSE NoMatch

\* trimmed.match(classRegex): the leftmost match
classMatch(t) ==
  LET hits == {c \in 1..Len(t) : classCoreAt(t, c).ok}
  IN  IF hits = {} THEN NoMatch ELSE classCoreAt(t, minPos(hits))

classRecords(t, lineNo, m) ==
  IF ~m.ok THEN <<>>
  ELSE <<[name |-> m.name, startLine |-> lineNo, endLine |-> lineNo,
          methods |-> <<>>, extends |-> m.extends, implements |-> m.implements,
          isExported |-> includes(t, KwExport)]>>

classesOfLine(t, lineNo) == classRecords(t, lineNo, classMatch(t))

extractClasses(content, language) ==
  IF language \in {"typescript", "javascript"}
    THEN LET lines == trimmedLines(content)
         IN  flatMapLines(lines, 1, [k \in 1..Len(lines) |-> classesOfLine(lines[k], k)])
    ELSE <<>>

\* interface\s+(\w+) tried at position i
interfaceCoreAt(t, i) ==
  LET w == spanLen(t, i + 9, WhiteSpace)
      n == spanLen(t, i + 9 + w, WordChars)
  IN  IF startsWithAt(t, KwInterface, i) /\ w >= 1 /\ n >= 1
      THEN [ok |-> TRUE, name |-> SubSeq(t, i + 9 + w, i + 8 + w + n)]
      ELSE NoMatch

interfacesOfLine(t, lineNo) ==
  LET hits == {i \in 1..Len(t) : interfaceCoreAt(t, i).ok}
  IN  IF hits = {} THEN <<>>
      ELSE <<[name |-> interfaceCoreAt(t, minPos(hits)).name,
              startLine |-> lineNo, endLine |-> lineNo, properties |-> <<>>,
              isExported |-> includes(t, KwExport)]>>

extractInterfaces(content, language) ==
  IF language = "typescript"
    THEN LET lines == trimmedLines(content)
         IN  flatMapLines(lines, 1, [k \in 1..Len(lines) |-> interfacesOfLine(lines[k], k)])
    ELSE <<>>

\* =\s*(.+) tried at position e, after the name
typeDefinitionAt(t, name, e) ==
  LET q == after(t, e + 1, WhiteSpace)
      z == afterNot(t, q, LineTerminators)
  IN  IF e <= Len(t) /\ t[e] = "=" /\ z > q
        THEN [ok |-> TRUE, name |-> name, definition |-> SubSeq(t, q, z - 1)]
        ELSE NoMatch

\* type\s+(\w+)\s*=\s*(.+) tried at position i
typeCoreAt(t, i) ==
  LET a == after(t, i + 4, WhiteSpace)
      e == after(t, a, WordChars)
  IN  IF startsWithAt(t, KwType, i) /\ a > i + 4 /\ e > a
        THEN typeDefinitionAt(t, SubSeq(t, a, e - 1), after(t, e, WhiteSpace))
        ELSE NoMatch

\* trimmed.match(typeRegex): the leftmost match
typeMatch(t) ==
  LET hits == {i \in 1..Len(t) : typeCoreAt(t, i).ok}
  IN  IF hits = {} THEN NoMatch ELSE typeCoreAt(t, minPos(hits))

typeRecords(t, lineNo, m) ==
  IF ~m.ok THEN <<>>
  ELSE <<[name |-> m.name, startLine |-> lineNo, definition |-> trim(m.definition),
          isExported |-> includes(t, KwExport)]>>

typesOfLine(t, lineNo) == typeRecords(t, lineNo, typeMatch(t))

extractTypes(content, language) ==
  IF language = "typescript"
    THEN LET lines == trimmedLines(content)
         IN  flatMapLines(lines, 1, [k \in 1..Len(lines) |-> typesOfLine(lines[k], k)])
    ELSE <<>>

(***************************************************************************)
(* Paths (node:path, POSIX flavour)                                        *)
(***************************************************************************)

\* process.cwd() of the server process
Cwd == <<"/">>

\* the segments of an absolute, normalized path: "/p/src" -> <<"p", "src">>
segments(p) == SelectSeq(split(p, "/"), LAMBDA seg : seg # <<>>)

\* the absolute path of a list of segments
fromSegments(segs) == IF segs = <<>> THEN <<"/">> ELSE <<"/">> \o join(segs, <<"/">>)

\* path.resolve(p) for a path with no "." or ".." segment: made absolute against
\* the working directory, doubled and trailing slashes removed
resolve(p) ==
  fromSegments(segments(IF startsWith(p, <<"/">>) THEN p
                        ELSE IF Cwd = <<"/">> THEN <<"/">> \o p
                        ELSE Cwd \o <<"/">> \o p))

\* the directory of a list of segments
parentOf(segs) ==
  IF Len(segs) <= 1 THEN <<"/">>
  ELSE <<"/">> \o join(SubSeq(segs, 1, Len(segs) - 1), <<"/">>)

\* path.dirname of an absolute path
dirname(p) == parentOf(segments(p))

\* the last of a list of segments
lastSegment(segs) == IF segs = <<>> THEN <<>> ELSE segs[Len(segs)]

\* path.basename
basename(p) == lastSegment(segments(p))

\* length of the longest common prefix of two segment lists
RECURSIVE commonPrefixLen(_, _)
commonPrefixLen(a, b) ==
  IF a # <<>> /\ b # <<>> /\ Head(a) = Head(b)
    THEN 1 + commonPrefixLen(Tail(a), Tail(b))
    ELSE 0

\* the path from segments f to segments t that share their first c segments
relativeFrom(f, t, c) ==
  join(seq([k \in 1..(Len(f) - c) |-> <<".", ".">>]) \o SubSeq(t, c + 1, Len(t)), <<"/">>)

relativeSegments(f, t) == relativeFrom(f, t, commonPrefixLen(f, t))

\* path.relative(from, to)
relative(from, to) == relativeSegments(segments(resolve(from)), segments(resolve(to)))

\* whether segments ps continue segments ds
isBelow(ps, ds) == Len(ps) > Len(ds) /\ SubSeq(ps, 1, Len(ds)) = ds

\* whether path p lies strictly below directory d
isUnder(p, d) == isBelow(segments(p), segments(d))

(***************************************************************************)
(* FileInfo records (ProjectAnalyzer.analyzeFile)                          *)
(***************************************************************************)

\* fileInfo.imports.map(imp => imp.path)
importPaths(imports) == seq([k \in 1..Len(imports) |-> imports[k].path])

\* the fileInfo object of the try block as it is first built: the facts
\* extracted from the text read, dependencies: []
extractFileInfo(filePath, root, content, size, mtime, language) ==
  [path |-> filePath,
   relativePath |-> relative(root, filePath),
   content |-> content,
   size |-> size,
   lastModified |-> mtime,
   imports |-> extractImports(content, language),
   exports |-> extractExports(content, language),
   functions |-> extractFunctions(content, language),
   classes |-> extractClasses(content, language),
   interfaces |-> extractInterfaces(content, language),
   types |-> extractTypes(content, language),
   dependencies |-> <<>>,
   language |-> language]

\* the dependencies left as they were first built
buildDependenciesSkipped(fileInfo) == fileInfo

\* fileInfo.dependencies = fileInfo.imports.map(imp => imp.path)
buildDependencies(fileInfo) ==
  [fileInfo EXCEPT !.dependencies = importPaths(fileInfo.imports)]

\* The record analyzeFile builds when stat and readFile succeed.  size and
\* lastModified come from the stat result, the fact lists from the text read.
buildFileInfo(filePath, root, content, size, mtime) ==
  buildDependencies(extractFileInfo(filePath, root, content, size, mtime,
                                    detectLanguage(filePath)))

\* The record analyzeFile builds in its catch block.  lastModified is the time
\* of the failure (new Date()), written 0 here.
minimalFileInfo(filePath, root) ==
  [path |-> filePath,
   relativePath |-> relative(root, filePath),
   content |-> <<>>,
   size |-> 0,
   lastModified |-> 0,
   imports |-> <<>>,
   exports |-> <<>>,
   functions |-> <<>>,
   classes |-> <<>>,
   interfaces |-> <<>>,
   types |-> <<>>,
   dependencies |-> <<>>,
   language |-> "other"]

(***************************************************************************)
(* ProjectAnalyzer: findFile and buildDependencyGraph                      *)
(* (src/src/analyzer.ts)                                                   *)
(***************************************************************************)

\* Array.prototype.find: the first position whose element satisfies Test,
\* 0 (undefined) when there is none
findFirst(files, Test(_)) ==
  IF \E k \in 1..Len(files) : Test(files[k])
    THEN CHOOSE k \in 1..Len(files) :
           Test(files[k]) /\ \A j \in 1..(k - 1) : ~Test(files[j])
    ELSE 0

\* the extensions findFile tries, in its order
FindExtensions == <<<<".","t","s">>, <<".","j","s">>, <<".","t","s","x">>, <<".","j","s","x">>>>

\* the loop of findFile over the extensions from position e on
RECURSIVE findWithExtension(_, _, _)
findWithExtension(files, importPath, e) ==
  IF e > Len(FindExtensions) THEN 0
  ELSE LET found ==
             findFirst(files,
               LAMBDA f : \/ f.relativePath = importPath \o FindExtensions[e]
                          \/ f.relativePath = importPath \o <<"/","i","n","d","e","x">> \o FindExtensions[e])
       IN  IF found # 0 THEN found
           ELSE findWithExtension(files, importPath, e + 1)

\* findFile(importPath) over the cache values: the position of the file
\* found, 0 for undefined
findFile(files, importPath) ==
  LET exact == findFirst(files, LAMBDA f : f.relativePath = importPath \/ f.path = importPath)
      withExtension == findWithExtension(files, importPath, 1)
  IN  IF exact # 0 THEN exact
      ELSE IF withExtension # 0 THEN withExtension
      ELSE findFirst(files, LAMBDA f : \/ includes(f.relativePath, importPath)
                                       \/ includes(f.path, importPath))

\* Array.prototype.includes
arrayIncludes(list, x) == \E k \in 1..Len(list) : list[k] = x

\* files without those whose path holds 'test' or 'spec', unless includeTests
filterTests(files, includeTests) ==
  IF includeTests THEN files
  ELSE SelectSeq(files, LAMBDA f : ~includes(f.path, <<"t","e","s","t">>) /\ ~includes(f.path, <<"s","p","e","c">>))

\* this.findFile(target) || filteredFiles.find(...): the target's record,
\* with found FALSE for undefined
findTarget(files, target, includeTests) ==
  LET first == findFile(files, target)
      filtered == filterTests(files, includeTests)
      second == findFirst(filtered, LAMBDA f : includes(f.relativePath, target))
  IN  IF first # 0 THEN [found |-> TRUE, file |-> files[first]]
      ELSE IF second # 0 THEN [found |-> TRUE, file |-> filtered[second]]
      ELSE [found |-> FALSE]

\* the depth beyond which collectDependencies returns at once
MaxDepth == 5

\* a visited set that never holds a path
hasVisitedNever(visited, filePath) == FALSE

\* visited.has(file.path)
hasVisited(visited, filePath) == filePath \in visited

\* the closure variables of collectDependencies before its first call;
\* visits lists the calls that got past the guard, calls counts all of them
NoCollection == [visited |-> {}, dependencies |-> <<>>, visits |-> <<>>, calls |-> 0]

RECURSIVE collectDependencies(_, _, _, _)
RECURSIVE collectEach(_, _, _, _, _)

\* collectDependencies(file, depth) acting on the closure variables st
collectDependencies(files, st, file, depth) ==
  LET entered == [st EXCEPT !.calls = st.calls + 1]
  IN  IF hasVisited(st.visited, file.path) \/ depth > MaxDepth THEN entered
      ELSE collectEach(files,
                       [entered EXCEPT
                          !.visited = st.visited \cup {file.path},
                          !.visits = Append(st.visits, [path |-> file.path, depth |-> depth])],
                       file, depth, 1)

\* its loop over file.dependencies from position i on
collectEach(files, st, file, depth, i) ==
  IF i > Len(file.dependencies) THEN st
  ELSE LET found == findFile(files, file.dependencies[i])
       IN  IF found # 0 /\ ~arrayIncludes(st.dependencies, files[found].relativePath)
             THEN collectEach(files,
                              collectDependencies(files,
                                [st EXCEPT !.dependencies =
                                   Append(st.dependencies, files[found].relativePath)],
                                files[found], depth + 1),
                              file, depth, i + 1)
             ELSE collectEach(files, st, file, depth, i + 1)

\* the files that import the target: their relativePath, in cache order
dependentsOf(files, target) ==
  LET importing ==
        SelectSeq(files,
          LAMBDA f : \/ arrayIncludes(f.dependencies, target)
                     \/ \E k \in 1..Len(f.imports) : f.imports[k].path = target)
  IN  seq([k \in 1..Len(importing) |-> importing[k].relativePath])

\* ProjectAnalyzer.buildDependencyGraph(target, projectRoot, includeTests)
\* over the cache values; visits and calls record the recursion
analyzerDependencyGraph(files, target, includeTests) ==
  LET targetFile == findTarget(files, target, includeTests)
  IN  IF ~targetFile.found
        THEN [target |-> target, dependencies |-> <<>>, dependents |-> <<>>,
              nodes |-> <<>>, edges |-> <<>>, visits |-> <<>>, calls |-> 0]
        ELSE LET dependents == dependentsOf(filterTests(files, includeTests), target)
                 collected == collectDependencies(files, NoCollection, targetFile.file, 0)
                 dependencies == collected.dependencies
                 own == targetFile.file.relativePath
             IN  [target |-> own,
                  dependencies |-> dependencies,
                  dependents |-> dependents,
                  nodes |-> <<own>> \o dependencies \o dependents,
                  edges |-> seq([k \in 1..Len(dependencies) |->
                                   [source |-> own, target |-> dependencies[k]]])
                            \o seq([k \in 1..Len(dependents) |->
                                      [source |-> dependents[k], target |-> own]]),
                  visits |-> collected.visits,
                  calls |-> collected.calls]

(***************************************************************************)
(* ContextBuilder: relevance ranking (src/src/context-builder.ts)          *)
(***************************************************************************)

\* slice(0, 20) of findRelevantFiles
MaxRelevantFiles == 20

\* slice(0, 10) of the fallback branch
MaxFallbackFiles == 10

\* query.toLowerCase().split(/\s+/).filter(word => word.length > 2)
keywordsOf(query) ==
  SelectSeq(splitWhitespace(toLowerCase(query)), LAMBDA word : Len(word) > 2)

\* Array.prototype.some over a sequence
some(s, test(_)) == \E k \in 1..Len(s) : test(s[k])

isPrimaryLanguage(file) == file.language \in {"typescript", "javascript"}

\* the relevance predicate with a keyword test that holds of an empty keyword
\* list (every instead of some)
isRelevantVacuous(file, keywords) ==
  LET fileName    == toLowerCase(file.relativePath)
      fileContent == toLowerCase(file.content)
      fileNameMatches ==
        \A k \in 1..Len(keywords) :
          \/ includes(fileName, keywords[k])
          \/ some(file.functions, LAMBDA fn : includes(toLowerCase(fn.name), keywords[k]))
          \/ some(file.classes, LAMBDA cls : includes(toLowerCase(cls.name), keywords[k]))
      contentMatches ==
        \A k \in 1..Len(keywords) :
          \/ includes(fileContent, keywords[k])
          \/ some(file.imports, LAMBDA imp : includes(toLowerCase(imp.path), keywords[k]))
  IN  isPrimaryLanguage(file) /\ (fileNameMatches \/ contentMatches)

\* the relevance predicate without its test of the content and the imports
isRelevantByName(file, keywords) ==
  LET fileName == toLowerCase(file.relativePath)
      fileNameMatches ==
        some(keywords, LAMBDA keyword :
          \/ includes(fileName, keyword)
          \/ some(file.functions, LAMBDA fn : includes(toLowerCase(fn.name), keyword))
          \/ some(file.classes, LAMBDA cls : includes(toLowerCase(cls.name), keyword)))
  IN  isPrimaryLanguage(file) /\ fileNameMatches

\* the predicate of the first allFiles.filter of findRelevantFiles
isRelevant(file, keywords) ==
  LET fileName    == toLowerCase(file.relativePath)
      fileContent == toLowerCase(file.content)
      fileNameMatches ==
        some(keywords, LAMBDA keyword :
          \/ includes(fileName, keyword)
          \/ some(file.functions, LAMBDA fn : includes(toLowerCase(fn.name), keyword))
          \/ some(file.classes, LAMBDA cls : includes(toLowerCase(cls.name), keyword)))
      contentMatches ==
        some(keywords, LAMBDA keyword :
          \/ includes(fileContent, keyword)
          \/ some(file.imports, LAMBDA imp : includes(toLowerCase(imp.path), keyword)))
  IN  isPrimaryLanguage(file) /\ (fileNameMatches \/ contentMatches)

\* the predicate of the fallback allFiles.filter
isMainFile(file) ==
  LET fileName == toLowerCase(file.relativePath)
  IN  /\ isPrimaryLanguage(file)
      /\ \/ includes(fileName, <<"i","n","d","e","x">>)
         \/ includes(fileName, <<"m","a","i","n">>)
         \/ Len(file.functions) > 0
         \/ Len(file.classes) > 0

\* the fallback branch without its slice(0, 10)
fallbackFilesUncapped(allFiles) == SelectSeq(allFiles, isMainFile)

\* the fallback branch: allFiles.filter(...).slice(0, 10)
fallbackFiles(allFiles) ==
  slice0(SelectSeq(allFiles, isMainFile), MaxFallbackFiles)

\* relevance selection followed by the fallback when it selects nothing
selectCandidates(allFiles, keywords) ==
  LET relevantFiles == SelectSeq(allFiles, LAMBDA file : isRelevant(file, keywords))
  IN  IF Len(relevantFiles) = 0 THEN fallbackFiles(allFiles) ELSE relevantFiles

\* the scope filter; scope "undefined" is an absent option
applyScope(files, scope) ==
  IF scope = "function" THEN SelectSeq(files, LAMBDA f : Len(f.functions) > 0)
  ELSE IF scope = "class" THEN SelectSeq(files, LAMBDA f : Len(f.classes) > 0)
  ELSE files

\* new RegExp(keyword, 'g') throws a SyntaxError.  Keywords of the model are
\* made of letters, digits, "_", "/", "-", "." and "(", and no keyword holds a
\* ")", so a pattern is invalid exactly when it opens a group.
regExpThrows(keyword) == "(" \in Range(keyword)

\* whether the pattern matches at position i: "." is any character but a line
\* terminator, every other character of the model's keywords is a literal
patternMatchesAt(s, pattern, i) ==
  /\ i + Len(pattern) - 1 <= Len(s)
  /\ \A k \in 1..Len(pattern) :
       IF pattern[k] = "." THEN s[i + k - 1] \notin LineTerminators
       ELSE s[i + k - 1] = pattern[k]

\* (content.match(new RegExp(keyword, 'g')) || []).length from position i on:
\* the matches of a global pattern do not overlap
RECURSIVE countMatchesFrom(_, _, _)
countMatchesFrom(s, pattern, i) ==
  IF i + Len(pattern) - 1 > Len(s) THEN 0
  ELSE IF patternMatchesAt(s, pattern, i)
    THEN 1 + countMatchesFrom(s, pattern, i + Len(pattern))
  ELSE countMatchesFrom(s, pattern, i + 1)

min(a, b) == IF a < b THEN a ELSE b

\* the body of keywords.forEach in calculateRelevanceScore, for one keyword
keywordScore(file, keyword) ==
  LET fileName == toLowerCase(file.relativePath)
      content  == toLowerCase(file.content)
  IN  (IF includes(fileName, keyword) THEN 10 ELSE 0)
      + (IF some(file.functions, LAMBDA fn : includes(toLowerCase(fn.name), keyword))
           THEN 8 ELSE 0)
      + (IF some(file.classes, LAMBDA cls : includes(toLowerCase(cls.name), keyword))
           THEN 8 ELSE 0)
      + min(countMatchesFrom(content, keyword, 1), 5)
      + (IF some(file.imports, LAMBDA imp : includes(toLowerCase(imp.path), keyword))
           THEN 5 ELSE 0)

RECURSIVE sumScores(_, _, _)
sumScores(file, keywords, k) ==
  IF k > Len(keywords) THEN 0
  ELSE keywordScore(file, keywords[k]) + sumScores(file, keywords, k + 1)

\* calculateRelevanceScore, for keywords that are valid patterns
calculateRelevanceScore(file, keywords) == sumScores(file, keywords, 1)

\* the comparator (a, b) => bScore - aScore throws on its first call
comparatorThrows(keywords) == some(keywords, regExpThrows)

\* position of x in a list kept in comparator order: after every element the
\* comparator does not place behind it (Array.prototype.sort is stable)
insertPosition(acc, x, score) ==
  Cardinality({j \in 1..Len(acc) : score[acc[j]] >= score[x]})

RECURSIVE sortedIndices(_, _)
sortedIndices(n, score) ==
  IF n = 0 THEN <<>>
  ELSE LET acc == sortedIndices(n - 1, score)
           pos == insertPosition(acc, n, score)
       IN  SubSeq(acc, 1, pos) \o <<n>> \o SubSeq(acc, pos + 1, Len(acc))

\* the sort with the comparator reversed: (a, b) => aScore - bScore
sortByRelevanceAscending(files, keywords) ==
  LET score == seq([k \in 1..Len(files) |-> 0 - calculateRelevanceScore(files[k], keywords)])
      order == sortedIndices(Len(files), score)
  IN  seq([k \in 1..Len(files) |-> files[order[k]]])

\* relevantFiles.sort((a, b) => bScore - aScore)
sortByRelevance(files, keywords) ==
  LET score == seq([k \in 1..Len(files) |-> calculateRelevanceScore(files[k], keywords)])
      order == sortedIndices(Len(files), score)
  IN  seq([k \in 1..Len(files) |-> files[order[k]]])

\* the final slice taken one entry too long
topRelevantOffByOne(sorted) == slice0(sorted, MaxRelevantFiles + 1)

\* relevantFiles.slice(0, 20)
topRelevant(sorted) == slice0(sorted, MaxRelevantFiles)

\* findRelevantFiles with the scope filter applied to the input, before the
\* relevance and fallback selection
findRelevantFilesScopeFirst(allFiles, query, scope) ==
  LET keywords == keywordsOf(query)
      scoped   == selectCandidates(applyScope(allFiles, scope), keywords)
  IN  IF Len(scoped) >= 2 /\ comparatorThrows(keywords)
        THEN [ok |-> FALSE, files |-> <<>>, message |-> <<>>]
        ELSE [ok |-> TRUE, files |-> topRelevant(sortByRelevance(scoped, keywords)),
              message |-> <<>>]

\* findRelevantFiles: ok = FALSE when it throws.  The comparator runs only
\* when there are at least two files to order.
findRelevantFiles(allFiles, query, scope) ==
  LET keywords == keywordsOf(query)
      scoped   == applyScope(selectCandidates(allFiles, keywords), scope)
  IN  IF Len(scoped) >= 2 /\ comparatorThrows(keywords)
        THEN [ok |-> FALSE, files |-> <<>>,
              message |-> <<"I","n","v","a","l","i","d"," ","r","e","g","u","l","a","r",
                            " ","e","x","p","r","e","s","s","i","o","n">>]
        ELSE [ok |-> TRUE, files |-> topRelevant(sortByRelevance(scoped, keywords)),
              message |-> <<>>]

(***************************************************************************)
(* ContextBuilder: graph, usage patterns and the formatted document        *)
(* (src/src/context-builder.ts)                                            *)
(***************************************************************************)

NewLine == <<"\n">>

\* the character U+0060, which a string of this notation cannot hold
Backquote == "U+0060"

\* sections.join('\n')
joinLines(sections) == join(sections, NewLine)

\* the sum of f(s[k]) over a sequence: reduce((sum, x) => sum + f(x), 0)
RECURSIVE sumOver(_, _)
sumOver(counts, k) == IF k > Len(counts) THEN 0 ELSE counts[k] + sumOver(counts, k + 1)

\* content.split('\n').length
lineCount(content) == Len(split(content, "\n"))

\* the keys of an object in insertion order: first occurrences of the items
RECURSIVE firstOccurrences(_)
firstOccurrences(items) ==
  IF items = <<>> THEN <<>>
  ELSE LET rest == firstOccurrences(SubSeq(items, 1, Len(items) - 1))
           last == items[Len(items)]
       IN  IF \E k \in 1..Len(rest) : rest[k] = last THEN rest ELSE Append(rest, last)

occurrences(items, x) == Cardinality({k \in 1..Len(items) : items[k] = x})

\* the concatenation of a sequence of sequences
RECURSIVE flatten(_)
flatten(lists) == IF lists = <<>> THEN <<>> ELSE Head(lists) \o flatten(Tail(lists))

\* a list ordered by descending count, ties in the given order (stable sort)
sortByCountDescending(items, count) ==
  LET order == sortedIndices(Len(items), count)
  IN  seq([k \in 1..Len(items) |-> items[order[k]]])

\* an import resolved to the last of the files it matches
importTargetLast(files, imp) ==
  LET hits == {k \in 1..Len(files) :
                 \/ includes(files[k].relativePath, imp.path)
                 \/ files[k].relativePath = imp.path \o <<".","t","s">>
                 \/ files[k].relativePath = imp.path \o <<".","j","s">>}
  IN  IF hits = {} THEN 0 ELSE CHOOSE k \in hits : \A j \in hits : j <= k

\* ContextBuilder.buildDependencyGraph: a node per file, an edge per import
\* that files.find resolves to one of the files
importTarget(files, imp) ==
  LET hits == {k \in 1..Len(files) :
                 \/ includes(files[k].relativePath, imp.path)
                 \/ files[k].relativePath = imp.path \o <<".","t","s">>
                 \/ files[k].relativePath = imp.path \o <<".","j","s">>}
  IN  IF hits = {} THEN 0 ELSE minPos(hits)

edgesOfFile(files, file) ==
  LET targets == seq([i \in 1..Len(file.imports) |-> importTarget(files, file.imports[i])])
      found   == SelectSeq(targets, LAMBDA k : k # 0)
  IN  seq([i \in 1..Len(found) |->
             [source |-> file.relativePath, target |-> files[found[i]].relativePath,
              type |-> "import"]])

buildDependencyGraph(files) ==
  [defined |-> TRUE,
   nodes |-> seq([k \in 1..Len(files) |->
                [id |-> files[k].relativePath, type |-> files[k].language,
                 size |-> files[k].size, functions |-> Len(files[k].functions),
                 classes |-> Len(files[k].classes)]]),
   edges |-> flatten(seq([k \in 1..Len(files) |-> edgesOfFile(files, files[k])]))]

\* an argument that is not passed
NoGraph == [defined |-> FALSE, nodes |-> <<>>, edges |-> <<>>]

\* ContextBuilder.analyzeUsagePatterns
commonImportsOf(relevantFiles) ==
  LET paths  == flatten(seq([k \in 1..Len(relevantFiles) |->
                               importPaths(relevantFiles[k].imports)]))
      keys   == firstOccurrences(paths)
      counts == seq([k \in 1..Len(keys) |-> occurrences(paths, keys[k])])
      items  == seq([k \in 1..Len(keys) |-> [import |-> keys[k], count |-> counts[k]]])
  IN  slice0(sortByCountDescending(items, counts), 10)

architecturalPatternsOf(relevantFiles) ==
  LET has(word) == \E k \in 1..Len(relevantFiles) : includes(relevantFiles[k].relativePath, word)
  IN  (IF has(<<"s","e","r","v","i","c","e">>) THEN <<<<"S","e","r","v","i","c","e"," ","L","a","y","e","r">>>> ELSE <<>>)
      \o (IF has(<<"c","o","m","p","o","n","e","n","t">>) THEN <<<<"C","o","m","p","o","n","e","n","t"," ","A","r","c","h","i","t","e","c","t","u","r","e">>>> ELSE <<>>)
      \o (IF has(<<"u","t","i","l">>) \/ has(<<"h","e","l","p","e","r">>) THEN <<<<"U","t","i","l","i","t","y"," ","F","u","n","c","t","i","o","n","s">>>> ELSE <<>>)
      \o (IF has(<<"m","o","d","e","l">>) \/ has(<<"e","n","t","i","t","y">>) THEN <<<<"D","a","t","a"," ","M","o","d","e","l","s">>>> ELSE <<>>)

\* the functions used more than once in their own file, with the count the
\* last such file gives; function names are \w+, always a valid pattern
functionUsageOf(relevantFiles) ==
  LET usesOfFile(file) ==
        SelectSeq(seq([i \in 1..Len(file.functions) |->
                         [function |-> file.functions[i].name,
                          usageCount |-> countMatchesFrom(file.content, file.functions[i].name, 1)]]),
                  LAMBDA u : u.usageCount > 1)
      uses   == flatten(seq([k \in 1..Len(relevantFiles) |-> usesOfFile(relevantFiles[k])]))
      keys   == firstOccurrences(seq([k \in 1..Len(uses) |-> uses[k].function]))
      lastOf(name) == uses[CHOOSE k \in 1..Len(uses) :
                             /\ uses[k].function = name
                             /\ \A j \in (k + 1)..Len(uses) : uses[j].function # name]
      items  == seq([k \in 1..Len(keys) |-> lastOf(keys[k])])
      counts == seq([k \in 1..Len(items) |-> items[k].usageCount])
  IN  slice0(sortByCountDescending(items, counts), 10)

analyzeUsagePatterns(allFiles, relevantFiles) ==
  [defined |-> TRUE,
   commonImports |-> commonImportsOf(relevantFiles),
   architecturalPatterns |-> architecturalPatternsOf(relevantFiles),
   functionUsagePatterns |-> functionUsageOf(relevantFiles),
   classUsagePatterns |-> <<>>]

NoPatterns ==
  [defined |-> FALSE, commonImports |-> <<>>, architecturalPatterns |-> <<>>,
   functionUsagePatterns |-> <<>>, classUsagePatterns |-> <<>>]

\* the language of the file that the reduce of generateContextSummary keeps:
\* a later file replaces the kept one when its language is strictly more frequent
RECURSIVE summaryLanguage(_, _)
summaryLanguage(files, k) ==
  LET count(language) == Cardinality({j \in 1..Len(files) : files[j].language = language})
  IN  IF k = 1 THEN files[1].language
      ELSE LET prev == summaryLanguage(files, k - 1)
           IN  IF count(files[k].language) > count(prev) THEN files[k].language ELSE prev

totalLinesOf(files) == sumOver(seq([k \in 1..Len(files) |-> lineCount(files[k].content)]), 1)

totalFunctionsOf(files) == sumOver(seq([k \in 1..Len(files) |-> Len(files[k].functions)]), 1)

totalClassesOf(files) == sumOver(seq([k \in 1..Len(files) |-> Len(files[k].classes)]), 1)

\* a language name as text
languageText(language) ==
  CASE language = "typescript" -> <<"t","y","p","e","s","c","r","i","p","t">>
    [] language = "javascript" -> <<"j","a","v","a","s","c","r","i","p","t">>
    [] language = "python" -> <<"p","y","t","h","o","n">>
    [] OTHER -> <<"o","t","h","e","r">>

\* ContextBuilder.generateContextSummary, for a non-empty file list
generateContextSummary(files, dependencyGraph, usagePatterns) ==
  <<"T","h","i","s"," ","c","o","n","t","e","x","t"," ","c","o","n","t","a","i","n","s"," ">> \o toDecimal(Len(files)) \o <<" ","f","i","l","e","s"," ","w","i","t","h"," ">>
  \o toDecimal(totalLinesOf(files)) \o <<" ","t","o","t","a","l"," ","l","i","n","e","s"," ","o","f"," ","c","o","d","e","."," ">>
  \o <<"T","h","e"," ","p","r","i","m","a","r","y"," ","l","a","n","g","u","a","g","e"," ","i","s"," ">> \o languageText(summaryLanguage(files, Len(files)))
  \o <<" ","w","i","t","h"," ">> \o toDecimal(totalFunctionsOf(files)) \o <<" ","f","u","n","c","t","i","o","n","s"," ","a","n","d"," ">>
  \o toDecimal(totalClassesOf(files)) \o <<" ","c","l","a","s","s","e","s",".">>
  \o (IF dependencyGraph.defined
        THEN <<" ","T","h","e"," ","d","e","p","e","n","d","e","n","c","y"," ","g","r","a","p","h"," ","s","h","o","w","s"," ">> \o toDecimal(Len(dependencyGraph.nodes))
             \o <<" ","n","o","d","e","s"," ","a","n","d"," ">> \o toDecimal(Len(dependencyGraph.edges)) \o <<" ","r","e","l","a","t","i","o","n","s","h","i","p","s",".">>
        ELSE <<>>)
  \o (IF usagePatterns.defined /\ Len(usagePatterns.architecturalPatterns) > 0
        THEN <<" ","K","e","y"," ","a","r","c","h","i","t","e","c","t","u","r","a","l"," ","p","a","t","t","e","r","n","s"," ","i","d","e","n","t","i","f","i","e","d",":"," ">>
             \o join(usagePatterns.architecturalPatterns, <<","," ">>) \o <<".">>
        ELSE <<>>)

\* the lines pushed for each element of a list
linesFor(items, line(_)) == seq([k \in 1..Len(items) |-> line(items[k])])

\* ContextBuilder.formatArchitectureOverview
formatArchitectureOverview(dependencyGraph, usagePatterns) ==
  joinLines(
    <<<<"*","*","D","e","p","e","n","d","e","n","c","y"," ","S","t","r","u","c","t","u","r","e",":","*","*">>,
      <<"-"," ","T","o","t","a","l"," ","m","o","d","u","l","e","s",":"," ">> \o toDecimal(Len(dependencyGraph.nodes)),
      <<"-"," ","T","o","t","a","l"," ","d","e","p","e","n","d","e","n","c","i","e","s",":"," ">> \o toDecimal(Len(dependencyGraph.edges))>>
    \o (IF Len(usagePatterns.commonImports) > 0
          THEN <<<<>>, <<"*","*","M","o","s","t"," ","C","o","m","m","o","n"," ","D","e","p","e","n","d","e","n","c","i","e","s",":","*","*">>>>
               \o linesFor(slice0(usagePatterns.commonImports, 5),
                           LAMBDA imp : <<"-"," ">> \o imp.import \o <<" ","(","u","s","e","d"," ","i","n"," ">>
                                        \o toDecimal(imp.count) \o <<" ","f","i","l","e","s",")">>)
          ELSE <<>>)
    \o (IF Len(usagePatterns.architecturalPatterns) > 0
          THEN <<<<>>, <<"*","*","A","r","c","h","i","t","e","c","t","u","r","a","l"," ","P","a","t","t","e","r","n","s",":","*","*">>>>
               \o linesFor(usagePatterns.architecturalPatterns, LAMBDA pattern : <<"-"," ">> \o pattern)
          ELSE <<>>))

\* the character U+2192 of formatDependencyGraph
Arrow == "U+2192"

\* ContextBuilder.formatDependencyGraph
formatDependencyGraph(dependencyGraph) ==
  joinLines(
    <<<<"*","*","M","o","d","u","l","e","s",":","*","*">>>>
    \o linesFor(slice0(dependencyGraph.nodes, 20),
                LAMBDA node : <<"-"," ","*","*">> \o node.id \o <<"*","*"," ","(">> \o languageText(node.type) \o <<","," ">>
                              \o toDecimal(node.functions) \o <<" ","f","u","n","c","t","i","o","n","s",","," ">>
                              \o toDecimal(node.classes) \o <<" ","c","l","a","s","s","e","s",")">>)
    \o (IF Len(dependencyGraph.nodes) > 20
          THEN <<<<".",".","."," ","a","n","d"," ">> \o toDecimal(Len(dependencyGraph.nodes) - 20) \o <<" ","m","o","r","e"," ","m","o","d","u","l","e","s">>>>
          ELSE <<>>)
    \o <<<<>>, <<"*","*","K","e","y"," ","D","e","p","e","n","d","e","n","c","i","e","s",":","*","*">>>>
    \o linesFor(slice0(dependencyGraph.edges, 15),
                LAMBDA edge : <<"-"," ">> \o edge.source \o <<" ", Arrow, " ">> \o edge.target
                              \o <<" ","(","i","m","p","o","r","t",")">>)
    \o (IF Len(dependencyGraph.edges) > 15
          THEN <<<<".",".","."," ","a","n","d"," ">> \o toDecimal(Len(dependencyGraph.edges) - 15)
                 \o <<" ","m","o","r","e"," ","d","e","p","e","n","d","e","n","c","i","e","s">>>>
          ELSE <<>>))

\* ContextBuilder.formatUsagePatterns; classUsagePatterns is always empty
formatUsagePatterns(usagePatterns) ==
  joinLines(
    IF Len(usagePatterns.functionUsagePatterns) > 0
      THEN <<<<"*","*","M","o","s","t"," ","U","s","e","d"," ","F","u","n","c","t","i","o","n","s",":","*","*">>>>
           \o linesFor(slice0(usagePatterns.functionUsagePatterns, 10),
                       LAMBDA func : <<"-"," ">> \o func.function \o <<" ","(">>
                                     \o toDecimal(func.usageCount) \o <<" ","c","a","l","l","s",")">>)
           \o <<<<>>>>
      ELSE <<>>)

\* ContextBuilder.getLanguageForHighlighting
getLanguageForHighlighting(language) ==
  IF language \in {"typescript", "javascript", "python"} THEN languageText(language) ELSE <<>>

\* the lines of the "Relevant Files Structure" entry of one file
structureLines(file) ==
  <<<<"#","#","#"," ">> \o file.relativePath,
    <<"*","*","L","a","n","g","u","a","g","e",":","*","*"," ">> \o languageText(file.language),
    <<"*","*","S","i","z","e",":","*","*"," ">> \o toDecimal(file.size) \o <<" ","b","y","t","e","s">>>>
  \o (IF Len(file.classes) > 0
        THEN <<<<"*","*","C","l","a","s","s","e","s",":","*","*"," ">> \o join(linesFor(file.classes, LAMBDA c : c.name), <<","," ">>)>>
        ELSE <<>>)
  \o (IF Len(file.functions) > 0
        THEN <<<<"*","*","F","u","n","c","t","i","o","n","s",":","*","*"," ">> \o join(linesFor(file.functions, LAMBDA f : f.name), <<","," ">>)>>
        ELSE <<>>)
  \o (IF Len(file.imports) > 0
        THEN <<<<"*","*","D","e","p","e","n","d","e","n","c","i","e","s",":","*","*"," ">> \o join(importPaths(file.imports), <<","," ">>)>>
        ELSE <<>>)
  \o <<<<>>>>

\* the lines of the "Complete File Contents" entry of one file
contentLines(file) ==
  <<<<"#","#","#"," ">> \o file.relativePath,
    <<>>,
    <<Backquote,Backquote,Backquote>> \o getLanguageForHighlighting(file.language),
    file.content,
    <<Backquote,Backquote,Backquote>>,
    <<>>>>

\* a formatter with the summary of the facts in its empty document
formatContextForFilesWithFacts(files, dependencyGraph, usagePatterns, query) ==
  <<"#"," ","E","m","p","t","y"," ","P","r","o","j","e","c","t"," ","C","o","n","t","e","x","t","\n","\n","N","o"," ","r","e","l","e","v","a","n","t"," ","f","i","l","e","s"," ","f","o","u","n","d"," ","f","o","r"," ","q","u","e","r","y",":"," ","\"">> \o query \o <<"\"">>
    \o (IF dependencyGraph.defined THEN <<"\n","\n","#","#"," ","D","e","p","e","n","d","e","n","c","y"," ","R","e","l","a","t","i","o","n","s","h","i","p","s">> ELSE <<>>)

\* ContextBuilder.formatContextForFiles; an absent query is the empty string
formatContextForFiles(files, dependencyGraph, usagePatterns, query) ==
  IF Len(files) = 0
    THEN <<"#"," ","E","m","p","t","y"," ","P","r","o","j","e","c","t"," ","C","o","n","t","e","x","t","\n","\n","N","o"," ","r","e","l","e","v","a","n","t"," ","f","i","l","e","s"," ","f","o","u","n","d"," ","f","o","r"," ","q","u","e","r","y",":"," ","\"">>
         \o (IF query = <<>> THEN <<"u","n","k","n","o","w","n">> ELSE query) \o <<"\"">>
    ELSE joinLines(
      <<<<"#"," ","C","o","m","p","l","e","t","e"," ","P","r","o","j","e","c","t"," ","C","o","n","t","e","x","t"," ","A","n","a","l","y","s","i","s">>>>
      \o (IF query # <<>> THEN <<<<"\n","*","*","Q","u","e","r","y",":","*","*"," ">> \o query>> ELSE <<>>)
      \o <<<<>>, generateContextSummary(files, dependencyGraph, usagePatterns), <<>>>>
      \o (IF dependencyGraph.defined /\ usagePatterns.defined
            THEN <<<<"#","#"," ","A","r","c","h","i","t","e","c","t","u","r","e"," ","O","v","e","r","v","i","e","w">>,
                   formatArchitectureOverview(dependencyGraph, usagePatterns), <<>>>>
            ELSE <<>>)
      \o <<<<"#","#"," ","R","e","l","e","v","a","n","t"," ","F","i","l","e","s"," ","S","t","r","u","c","t","u","r","e">>>>
      \o flatten(linesFor(files, structureLines))
      \o <<<<"#","#"," ","C","o","m","p","l","e","t","e"," ","F","i","l","e"," ","C","o","n","t","e","n","t","s">>>>
      \o flatten(linesFor(files, contentLines))
      \o (IF dependencyGraph.defined
            THEN <<<<"#","#"," ","D","e","p","e","n","d","e","n","c","y"," ","R","e","l","a","t","i","o","n","s","h","i","p","s">>, formatDependencyGraph(dependencyGraph), <<>>>>
            ELSE <<>>)
      \o (IF usagePatterns.defined
            THEN <<<<"#","#"," ","U","s","a","g","e"," ","P","a","t","t","e","r","n","s"," ","&"," ","I","n","s","i","g","h","t","s">>, formatUsagePatterns(usagePatterns), <<>>>>
            ELSE <<>>))

\* a token estimate that rounds down: Math.floor(content.length / 4)
estimateTokenCountFloor(content) == Len(content) \div 4

\* ContextBuilder.estimateTokenCount: Math.ceil(content.length / 4)
estimateTokenCount(content) == (Len(content) + 3) \div 4

(***************************************************************************)
(* ContextBuilder: compression (src/src/context-builder.ts)                *)
(***************************************************************************)

\* String.prototype.split with a non-empty string separator
RECURSIVE splitBy(_, _)
splitBy(s, sep) ==
  LET i == indexOfFrom(s, sep, 1)
  IN  IF i = 0 THEN <<s>>
      ELSE <<SubSeq(s, 1, i - 1)>> \o splitBy(suffixFrom(s, i + Len(sep)), sep)

\* the lines intelligentCompression keeps of a file block
isEssentialLine(line) ==
  LET trimmed == trim(line)
  IN  \/ \E word \in {<<"e","x","p","o","r","t">>, <<"i","m","p","o","r","t">>, <<"f","u","n","c","t","i","o","n">>, <<"c","l","a","s","s">>, <<"i","n","t","e","r","f","a","c","e">>, <<"t","y","p","e">>,
                      <<"c","o","n","s","t">>, <<"/","/">>} : startsWith(trimmed, word)
      \/ includes(trimmed, <<"T","O","D","O">>)
      \/ includes(trimmed, <<"F","I","X","M","E">>)
      \/ startsWith(line, <<Backquote,Backquote,Backquote>>)

\* one element of section.split('### ').slice(1), compressed
compressFileBlock(file) ==
  LET lines == split(file, "\n")
  IN  lines[1] \o NewLine \o joinLines(SelectSeq(lines, isEssentialLine))

\* the body of the loop of intelligentCompression for sections[i]
compressSection(section, i) ==
  IF includes(section, <<"C","o","m","p","l","e","t","e"," ","F","i","l","e"," ","C","o","n","t","e","n","t","s">>)
    THEN LET files == Tail(splitBy(section, <<"#","#","#"," ">>))
             compressedFiles == linesFor(files, LAMBDA file : <<"#","#","#"," ">> \o compressFileBlock(file))
         IN  <<"#","#"," ">> \o split(section, "\n")[1] \o <<"\n","\n">>
             \o join(compressedFiles, <<"\n","\n","-","-","-","\n","\n">>)
    ELSE IF i = 1 THEN section ELSE <<"#","#"," ">> \o section

\* the first tier: compressedSections.join('\n\n')
moderateCompression(context) ==
  LET sections == splitBy(context, <<"\n","#","#"," ">>)
  IN  join(seq([i \in 1..Len(sections) |-> compressSection(sections[i], i)]), <<"\n","\n">>)

\* the lines aggressiveCompression keeps inside a code block
isKeptInCodeBlock(line) ==
  LET trimmed == trim(line)
  IN  \/ \E word \in {<<"e","x","p","o","r","t">>, <<"i","m","p","o","r","t">>, <<"f","u","n","c","t","i","o","n">>, <<"c","l","a","s","s">>, <<"i","n","t","e","r","f","a","c","e">>, <<"t","y","p","e">>,
                      <<"c","o","n","s","t">>, <<"l","e","t">>, <<"v","a","r">>} : startsWith(trimmed, word)
      \/ includes(trimmed, <<"/","/">>)
      \/ includes(trimmed, <<"/","*">>)
      \/ trimmed = <<>>
      \/ startsWith(line, <<"#">>)

\* the lines aggressiveCompression keeps outside code blocks
isKeptOutsideCodeBlock(line) ==
  \/ startsWith(line, <<"#">>)
  \/ startsWith(line, <<"*","*">>)
  \/ startsWith(line, <<"-"," ">>)
  \/ startsWith(line, <<"*">>)
  \/ trim(line) = <<>>
  \/ includes(line, <<"S","u","m","m","a","r","y">>)
  \/ includes(line, <<"I","n","s","i","g","h","t","s">>)

\* the loop of aggressiveCompression from line k on
RECURSIVE importantLines(_, _, _)
importantLines(lines, k, inCodeBlock) ==
  IF k > Len(lines) THEN <<>>
  ELSE IF startsWith(lines[k], <<Backquote,Backquote,Backquote>>)
    THEN <<lines[k]>> \o importantLines(lines, k + 1, ~inCodeBlock)
  ELSE IF inCodeBlock
    THEN (IF isKeptInCodeBlock(lines[k]) THEN <<lines[k]>> ELSE <<>>)
         \o importantLines(lines, k + 1, inCodeBlock)
  ELSE (IF isKeptOutsideCodeBlock(lines[k]) THEN <<lines[k]>> ELSE <<>>)
       \o importantLines(lines, k + 1, inCodeBlock)

\* a second tier that separates the lines it keeps by an empty line
aggressiveCompressionSpaced(context, maxTokens) ==
  join(importantLines(split(context, "\n"), 1, FALSE), <<"\n","\n">>)

\* ContextBuilder.aggressiveCompression
aggressiveCompression(context, maxTokens) ==
  joinLines(importantLines(split(context, "\n"), 1, FALSE))

\* a compressor whose second tier always runs
intelligentCompressionTwoTiers(context, maxTokens) ==
  aggressiveCompression(moderateCompression(context), maxTokens)

\* ContextBuilder.intelligentCompression
intelligentCompression(context, maxTokens) ==
  LET compressedContext == moderateCompression(context)
  IN  IF estimateTokenCount(compressedContext) > maxTokens
        THEN aggressiveCompression(compressedContext, maxTokens)
        ELSE compressedContext

(***************************************************************************)
(* ContextValidator (src/src/context-validator.ts)                         *)
(*                                                                         *)
(* A score is a number of sixtieths and a weight a number of hundredths,   *)
(* so that the tenths the validations add, the fifths of the code blocks   *)
(* and the ratios of up to six keywords are all whole numbers.             *)
(* completenessScore and confidenceScore are numbers of hundredths, as     *)
(* Math.round(x * 100) / 100 leaves them.                                  *)
(***************************************************************************)

tenths(n) == 6 * n

\* the score 1
FullScore == tenths(10)

\* Math.min(1, score)
capScore(score) == IF score > FullScore THEN FullScore ELSE score

\* the elements pushed when a condition holds
pushIf(condition, elements) == IF condition THEN elements ELSE <<>>

\* [...new Set(elements)]: the first occurrence of every element
RECURSIVE uniqueFrom(_, _)
uniqueFrom(elements, k) ==
  IF k > Len(elements) THEN <<>>
  ELSE pushIf(\A j \in 1..(k - 1) : elements[j] # elements[k], <<elements[k]>>)
         \o uniqueFrom(elements, k + 1)

unique(elements) == uniqueFrom(elements, 1)

\* the values Math.round(numerator / denominator) can have: the program
\* computes the quotient in binary floating point, whose error is far below
\* the distance between two quotients of these denominators, so the result
\* is the exact rounding except when the exact quotient lies halfway between
\* two integers, where the computed one can fall on either side
roundings(numerator, denominator) ==
  LET q == numerator \div denominator
      r == numerator % denominator
  IN  IF 2 * r < denominator THEN {q}
      ELSE IF 2 * r > denominator THEN {q + 1}
      ELSE {q, q + 1}

\* number of matches of /```[\s\S]*?```/g from position from on
RECURSIVE countCodeBlocks(_, _)
codeBlocksAfter(context, opening, closing) ==
  IF opening = 0 \/ closing = 0 THEN 0 ELSE 1 + countCodeBlocks(context, closing + 3)

codeBlocksFrom(context, opening) ==
  codeBlocksAfter(context, opening,
                  IF opening = 0 THEN 0
                  ELSE indexOfFrom(context, <<Backquote,Backquote,Backquote>>, opening + 3))

countCodeBlocks(context, from) ==
  codeBlocksFrom(context, indexOfFrom(context, <<Backquote,Backquote,Backquote>>, from))

\* number of matches of /^##? /gm
countHeaders(context) ==
  Cardinality({i \in 1..Len(context) :
                 /\ i = 1 \/ context[i - 1] \in {"\n", "\r"}
                 /\ startsWithAt(context, <<"#"," ">>, i) \/ startsWithAt(context, <<"#","#"," ">>, i)})

includesAny(s, subs) == \E sub \in subs : includes(s, sub)

\* analyzeQuery: the type of the query
queryTypeOf(queryLower) ==
  IF includesAny(queryLower, {<<"f","u","n","c","t","i","o","n">>, <<"m","e","t","h","o","d">>}) THEN "function"
  ELSE IF includesAny(queryLower, {<<"c","l","a","s","s">>, <<"o","b","j","e","c","t">>}) THEN "class"
  ELSE IF includesAny(queryLower, {<<"m","o","d","u","l","e">>, <<"f","i","l","e">>}) THEN "module"
  ELSE IF includesAny(queryLower, {<<"f","e","a","t","u","r","e">>, <<"c","o","m","p","o","n","e","n","t">>}) THEN "feature"
  ELSE "general"

\* word.length > 2 && /^[A-Z]/.test(word) || word.includes('.')
isEntity(word) ==
  \/ Len(word) > 2 /\ word[1] \in Range(UpperCase)
  \/ includes(word, <<".">>)

isKeyword(word) == Len(word) > 2

analysisOf(words, queryLower) ==
  [type |-> queryTypeOf(queryLower),
   entities |-> SelectSeq(words, isEntity),
   requiresTests |-> includesAny(queryLower, {<<"t","e","s","t">>, <<"s","p","e","c">>}),
   requiresDocumentation |-> includesAny(queryLower, {<<"d","o","c","u","m","e","n","t">>, <<"r","e","a","d","m","e">>}),
   keywords |-> SelectSeq(words, isKeyword)]

\* ContextValidator.analyzeQuery
analyzeQuery(query) == analysisOf(splitWhitespace(query), toLowerCase(query))

codeDetail(context, query, codeBlocks, hasImports, hasExports, hasTypes) ==
  [score |-> capScore((IF codeBlocks = 0 THEN tenths(1) ELSE capScore(2 * tenths(codeBlocks)))
                        + (IF hasImports THEN tenths(2) ELSE 0)
                        + (IF hasExports THEN tenths(1) ELSE 0)
                        + (IF hasTypes THEN tenths(1) ELSE 0)),
   weight |-> 30,
   missingElements |-> pushIf(codeBlocks = 0, <<<<"N","o"," ","c","o","d","e"," ","i","m","p","l","e","m","e","n","t","a","t","i","o","n","s"," ","f","o","u","n","d">>>>)
                         \o pushIf(~hasImports, <<<<"M","i","s","s","i","n","g"," ","i","m","p","o","r","t"," ","s","t","a","t","e","m","e","n","t","s">>>>),
   suggestions |-> pushIf(codeBlocks = 0, <<<<"I","n","c","l","u","d","e"," ","a","c","t","u","a","l"," ","c","o","d","e"," ","i","m","p","l","e","m","e","n","t","a","t","i","o","n","s">>>>),
   warnings |-> pushIf(query.type = "function" /\ ~includes(context, <<"f","u","n","c","t","i","o","n">>),
                       <<<<"Q","u","e","r","y"," ","a","s","k","s"," ","a","b","o","u","t"," ","f","u","n","c","t","i","o","n","s"," ","b","u","t"," ","f","e","w"," ","f","u","n","c","t","i","o","n"," ","d","e","f","i","n","i","t","i","o","n","s"," ","f","o","u","n","d">>>>)
                  \o pushIf(query.type = "class" /\ ~includes(context, <<"c","l","a","s","s">>),
                            <<<<"Q","u","e","r","y"," ","a","s","k","s"," ","a","b","o","u","t"," ","c","l","a","s","s","e","s"," ","b","u","t"," ","f","e","w"," ","c","l","a","s","s"," ","d","e","f","i","n","i","t","i","o","n","s"," ","f","o","u","n","d">>>>),
   strengths |-> pushIf(codeBlocks # 0, <<<<"C","o","n","t","a","i","n","s"," ">> \o toDecimal(codeBlocks) \o <<" ","c","o","d","e"," ","b","l","o","c","k","s">>>>)
                   \o pushIf(hasImports, <<<<"D","e","p","e","n","d","e","n","c","i","e","s"," ","a","n","d"," ","i","m","p","o","r","t","s"," ","a","r","e"," ","i","n","c","l","u","d","e","d">>>>)
                   \o pushIf(hasExports, <<<<"E","x","p","o","r","t"," ","s","t","a","t","e","m","e","n","t","s"," ","i","n","c","l","u","d","e","d">>>>)
                   \o pushIf(hasTypes, <<<<"T","y","p","e"," ","d","e","f","i","n","i","t","i","o","n","s"," ","i","n","c","l","u","d","e","d">>>>)]

\* ContextValidator.validateCodeCompleteness
validateCodeCompleteness(context, query) ==
  codeDetail(context, query, countCodeBlocks(context, 1),
             includesAny(context, {<<"i","m","p","o","r","t">>, <<"f","r","o","m">>}),
             includes(context, <<"e","x","p","o","r","t">>),
             includesAny(context, {<<"i","n","t","e","r","f","a","c","e">>, <<"t","y","p","e">>}))

dependencyDetail(hasDependencies, hasGraph, hasUsage) ==
  [score |-> capScore((IF hasDependencies THEN tenths(4) ELSE 0)
                        + (IF hasGraph THEN tenths(3) ELSE 0)
                        + (IF hasUsage THEN tenths(3) ELSE 0)),
   weight |-> 25,
   missingElements |-> pushIf(~hasDependencies, <<<<"M","i","s","s","i","n","g"," ","d","e","p","e","n","d","e","n","c","y"," ","i","n","f","o","r","m","a","t","i","o","n">>>>),
   suggestions |-> pushIf(~hasDependencies,
                          <<<<"I","n","c","l","u","d","e"," ","d","e","p","e","n","d","e","n","c","y"," ","r","e","l","a","t","i","o","n","s","h","i","p","s"," ","a","n","d"," ","i","m","p","o","r","t"," ","s","t","a","t","e","m","e","n","t","s">>>>),
   warnings |-> <<>>,
   strengths |-> pushIf(hasDependencies, <<<<"D","e","p","e","n","d","e","n","c","y"," ","i","n","f","o","r","m","a","t","i","o","n"," ","i","n","c","l","u","d","e","d">>>>)
                   \o pushIf(hasGraph, <<<<"D","e","p","e","n","d","e","n","c","y"," ","g","r","a","p","h"," ","v","i","s","u","a","l","i","z","a","t","i","o","n"," ","i","n","c","l","u","d","e","d">>>>)
                   \o pushIf(hasUsage, <<<<"U","s","a","g","e"," ","p","a","t","t","e","r","n","s"," ","d","o","c","u","m","e","n","t","e","d">>>>)]

\* ContextValidator.validateDependencyCompleteness
validateDependencyCompleteness(context, query) ==
  dependencyDetail(includesAny(context, {<<"D","e","p","e","n","d","e","n","c","i","e","s">>, <<"i","m","p","o","r","t","s">>}),
                   includes(context, <<"D","e","p","e","n","d","e","n","c","y">>) /\ includes(context, <<"G","r","a","p","h">>),
                   includesAny(context, {<<"U","s","a","g","e">>, <<"P","a","t","t","e","r","n">>}))

structuralDetail(hasHeaders, hasFiles, hasSummary, hasInsights) ==
  [score |-> capScore((IF hasHeaders >= 3 THEN tenths(3) ELSE 0)
                        + (IF hasFiles THEN tenths(3) ELSE 0)
                        + (IF hasSummary THEN tenths(2) ELSE 0)
                        + (IF hasInsights THEN tenths(2) ELSE 0)),
   weight |-> 20,
   missingElements |-> pushIf(~hasSummary, <<<<"M","i","s","s","i","n","g"," ","p","r","o","j","e","c","t"," ","s","u","m","m","a","r","y">>>>),
   suggestions |-> pushIf(hasHeaders < 3, <<<<"A","d","d"," ","m","o","r","e"," ","s","t","r","u","c","t","u","r","a","l"," ","s","e","c","t","i","o","n","s"," ","f","o","r"," ","c","l","a","r","i","t","y">>>>),
   warnings |-> <<>>,
   strengths |-> pushIf(hasHeaders >= 3, <<<<"W","e","l","l","-","s","t","r","u","c","t","u","r","e","d"," ","w","i","t","h"," ","m","u","l","t","i","p","l","e"," ","s","e","c","t","i","o","n","s">>>>)
                   \o pushIf(hasFiles, <<<<"F","i","l","e"," ","o","r","g","a","n","i","z","a","t","i","o","n"," ","i","n","c","l","u","d","e","d">>>>)
                   \o pushIf(hasSummary, <<<<"C","o","n","t","a","i","n","s"," ","s","u","m","m","a","r","y","/","o","v","e","r","v","i","e","w"," ","s","e","c","t","i","o","n">>>>)
                   \o pushIf(hasInsights, <<<<"I","n","c","l","u","d","e","s"," ","a","n","a","l","y","s","i","s"," ","a","n","d"," ","i","n","s","i","g","h","t","s">>>>)]

\* ContextValidator.validateStructuralCompleteness
validateStructuralCompleteness(context, query) ==
  structuralDetail(countHeaders(context),
                   includesAny(context, {<<"F","i","l","e"," ","C","o","n","t","e","n","t","s">>, <<"C","o","m","p","o","n","e","n","t","s">>}),
                   includesAny(context, {<<"S","u","m","m","a","r","y">>, <<"O","v","e","r","v","i","e","w">>}),
                   includesAny(context, {<<"I","n","s","i","g","h","t","s">>, <<"A","n","a","l","y","s","i","s">>}))

\* the elements of words that occur in contextLower, whatever their case
matchesIn(contextLower, words) ==
  SelectSeq(words, LAMBDA word : includes(contextLower, toLowerCase(word)))

\* a ratio of half its value
coherenceRatioHalved(matches, keywords) ==
  (FullScore * matches) \div (2 * (IF keywords > 1 THEN keywords ELSE 1))

\* keywordMatches.length / Math.max(query.keywords.length, 1)
coherenceRatioOf(matches, keywords) ==
  (FullScore * matches) \div (IF keywords > 1 THEN keywords ELSE 1)

coherenceDetail(coherenceRatio, entityMatches) ==
  [score |-> capScore(coherenceRatio + (IF entityMatches > 0 THEN tenths(2) ELSE 0)),
   weight |-> 15,
   missingElements |-> <<>>,
   suggestions |-> pushIf(coherenceRatio < tenths(4),
                          <<<<"E","n","s","u","r","e"," ","c","o","n","t","e","x","t"," ","d","i","r","e","c","t","l","y"," ","a","d","d","r","e","s","s","e","s"," ","t","h","e"," ","q","u","e","r","y">>>>),
   warnings |-> pushIf(coherenceRatio < tenths(4),
                       <<<<"L","o","w"," ","c","o","h","e","r","e","n","c","e"," ","b","e","t","w","e","e","n"," ","q","u","e","r","y"," ","a","n","d"," ","p","r","o","v","i","d","e","d"," ","c","o","n","t","e","x","t">>>>),
   strengths |-> (IF coherenceRatio >= tenths(7)
                    THEN <<<<"H","i","g","h"," ","c","o","h","e","r","e","n","c","e"," ","b","e","t","w","e","e","n"," ","q","u","e","r","y"," ","a","n","d"," ","c","o","n","t","e","x","t">>>>
                  ELSE IF coherenceRatio >= tenths(4)
                    THEN <<<<"G","o","o","d"," ","c","o","h","e","r","e","n","c","e"," ","b","e","t","w","e","e","n"," ","q","u","e","r","y"," ","a","n","d"," ","c","o","n","t","e","x","t">>>>
                  ELSE <<>>)
                   \o pushIf(entityMatches > 0,
                             <<<<"F","o","u","n","d"," ">> \o toDecimal(entityMatches) \o <<" ","r","e","q","u","e","s","t","e","d"," ","e","n","t","i","t","i","e","s">>>>)]

coherenceOf(contextLower, query) ==
  coherenceDetail(coherenceRatioOf(Len(matchesIn(contextLower, query.keywords)),
                                   Len(query.keywords)),
                  Len(matchesIn(contextLower, query.entities)))

\* ContextValidator.validateContextCoherence
validateContextCoherence(context, query) == coherenceOf(toLowerCase(context), query)

usageDetail(query, hasExamples, hasTests, hasDocumentation) ==
  [score |-> capScore((IF hasExamples THEN tenths(5) ELSE 0)
                        + (IF query.requiresTests /\ hasTests THEN tenths(3) ELSE 0)
                        + (IF query.requiresDocumentation /\ hasDocumentation
                             THEN tenths(2) ELSE 0)),
   weight |-> 10,
   missingElements |-> pushIf(query.requiresTests /\ ~hasTests, <<<<"M","i","s","s","i","n","g"," ","t","e","s","t"," ","c","a","s","e","s">>>>)
                         \o pushIf(query.requiresDocumentation /\ ~hasDocumentation,
                                   <<<<"M","i","s","s","i","n","g"," ","d","o","c","u","m","e","n","t","a","t","i","o","n">>>>),
   suggestions |-> pushIf(query.requiresTests /\ ~hasTests, <<<<"I","n","c","l","u","d","e"," ","r","e","l","e","v","a","n","t"," ","t","e","s","t"," ","f","i","l","e","s">>>>),
   warnings |-> <<>>,
   strengths |-> pushIf(hasExamples, <<<<"C","o","n","t","a","i","n","s"," ","u","s","a","g","e"," ","e","x","a","m","p","l","e","s">>>>)
                   \o pushIf(query.requiresTests /\ hasTests, <<<<"T","e","s","t"," ","c","a","s","e","s"," ","i","n","c","l","u","d","e","d">>>>)
                   \o pushIf(query.requiresDocumentation /\ hasDocumentation,
                             <<<<"D","o","c","u","m","e","n","t","a","t","i","o","n"," ","i","n","c","l","u","d","e","d">>>>)]

\* ContextValidator.validateUsageExamples
validateUsageExamples(context, query) ==
  usageDetail(query, includesAny(context, {<<"e","x","a","m","p","l","e">>, <<"E","x","a","m","p","l","e">>}),
              includesAny(context, {<<"t","e","s","t">>, <<"s","p","e","c">>}),
              includesAny(context, {<<"R","E","A","D","M","E">>, <<"d","o","c">>}))

\* the five validations of validateCompleteness, in their order
validationsOf(context, query) ==
  <<validateCodeCompleteness(context, query),
    validateDependencyCompleteness(context, query),
    validateStructuralCompleteness(context, query),
    validateContextCoherence(context, query),
    validateUsageExamples(context, query)>>

\* totalScore, in sixtieths of a hundredth
RECURSIVE totalScoreOf(_)
totalScoreOf(validations) ==
  IF validations = <<>> THEN 0
  ELSE Head(validations).score * Head(validations).weight + totalScoreOf(Tail(validations))

\* totalWeight, in hundredths
RECURSIVE totalWeightOf(_)
totalWeightOf(validations) ==
  IF validations = <<>> THEN 0
  ELSE Head(validations).weight + totalWeightOf(Tail(validations))

\* the values of Math.round((totalScore / totalWeight) * 100), the
\* completenessScore in hundredths
completenessScores(totalScore, totalWeight) ==
  IF totalWeight > 0 THEN roundings(100 * totalScore, FullScore * totalWeight) ELSE {0}

\* a confidence as the fraction numerator / denominator
fraction(numerator, denominator) == [numerator |-> numerator, denominator |-> denominator]

\* confidence *= factor, factor a fraction
times(confidence, factor) ==
  fraction(confidence.numerator * factor.numerator,
           confidence.denominator * factor.denominator)

\* a confidence that is left as it is
capConfidenceNot(confidence) == confidence

\* Math.min(1, confidence)
capConfidence(confidence) ==
  IF confidence.numerator > confidence.denominator THEN fraction(1, 1) ELSE confidence

\* the adjustment of the confidence to the length of the context
adjustToLength(confidence, contextLength) ==
  IF contextLength < 1000 THEN times(confidence, fraction(7, 10))
  ELSE IF contextLength > 10000 THEN capConfidence(times(confidence, fraction(11, 10)))
  ELSE confidence

\* the adjustment of the confidence to the number of code blocks
adjustToCode(confidence, codeBlockCount) ==
  IF codeBlockCount >= 3 THEN capConfidence(times(confidence, fraction(105, 100)))
  ELSE confidence

roundedConfidences(confidence) ==
  roundings(100 * confidence.numerator, confidence.denominator)

\* ContextValidator.calculateConfidenceScore: the values of the confidence
\* in hundredths, for a completenessScore in hundredths
calculateConfidenceScore(completenessScore, context) ==
  roundedConfidences(adjustToCode(adjustToLength(fraction(completenessScore, 100),
                                                 Len(context)),
                                  countCodeBlocks(context, 1)))

\* a validator that looks at the score alone
isCompleteByScore(completenessScore, missingElements) == completenessScore >= 80

\* result.completenessScore >= 0.8 && result.missingElements.length < 3
isCompleteOf(completenessScore, missingElements) ==
  completenessScore >= 80 /\ Len(missingElements) < 3

\* the result of validateCompleteness for one value of each of the two scores
validationResult(validations, missingElements, completenessScore, confidenceScore) ==
  [isComplete |-> isCompleteOf(completenessScore, missingElements),
   completenessScore |-> completenessScore,
   confidenceScore |-> confidenceScore,
   missingElements |-> unique(missingElements),
   suggestions |-> unique(flatten(seq([i \in 1..Len(validations) |-> validations[i].suggestions]))),
   warnings |-> unique(flatten(seq([i \in 1..Len(validations) |-> validations[i].warnings]))),
   strengths |-> unique(flatten(seq([i \in 1..Len(validations) |-> validations[i].strengths])))]

resultsOf(context, validations, missingElements) ==
  {validationResult(validations, missingElements, completenessScore, confidenceScore) :
     <<completenessScore, confidenceScore>> \in
       UNION {{<<c, d>> : d \in calculateConfidenceScore(c, context)} :
                c \in completenessScores(totalScoreOf(validations),
                                         totalWeightOf(validations))}}

validate(context, validations) ==
  resultsOf(context, validations,
            flatten(seq([i \in 1..Len(validations) |-> validations[i].missingElements])))

\* ContextValidator.validateCompleteness: the results the call can return
validateCompleteness(context, query) ==
  validate(context, seq(validationsOf(context, analyzeQuery(query))))

(***************************************************************************)
(* The file system the analyzer reads                                      *)
(***************************************************************************)

RootP == <<"/","p">>

RootQ == <<"/","q">>

\* a project with a package.json and a folder that cannot be read
RootK == <<"/","k">>

\* directories whose entries cannot be listed (EACCES)
UnreadableDirs == {<<"/","l">>, <<"/","k","/","s","u","b">>}

FileIndex == <<"/","p","/","i","n","d","e","x",".","t","s">>

FileUtil == <<"/","p","/","s","r","c","/","u","t","i","l",".","j","s">>

FileC == <<"/","q","/","c",".","t","s">>

\* a file no glob pattern of indexProject matches; it is never changed
FileNotes == <<"/","p","/","n","o","t","e","s",".","t","x","t">>

\* the files that are created, rewritten, deleted and made unreadable
WatchedFiles == <<FileIndex, FileUtil, FileC>>

\* number of changes made to the file system while the analyzer runs
MaxFsChanges == 1

\* number of indexProject and reindexFiles calls
MaxBatches == 2

\* the successive contents of each file; the versions differ in length
FileVersions(path) ==
  IF path = FileIndex
    THEN <<<<"i","m","p","o","r","t"," ","{"," ","u","t","i","l"," ","}"," ","f","r","o","m"," ","'",".","/","s","r","c","/","u","t","i","l","'","\n","e","x","p","o","r","t"," ","f","u","n","c","t","i","o","n"," ","m","a","i","n","(",")"," ","{","}","\n","m","a","i","n","(",")">>,
           <<"e","x","p","o","r","t"," ","c","l","a","s","s"," ","A","p","p"," ","{","}">>>>
  ELSE IF path = FileUtil
    THEN <<<<"c","o","n","s","t"," ","f","s"," ","="," ","r","e","q","u","i","r","e","(","'","f","s","'",")","\n","f","u","n","c","t","i","o","n"," ","u","t","i","l","(",")"," ","{","}">>,
           <<"f","u","n","c","t","i","o","n"," ","u","t","i","l","(",")"," ","{","}","\n","u","t","i","l","(",")">>>>
  ELSE IF path = FileC
    THEN <<<<"i","m","p","o","r","t"," ","a"," ","f","r","o","m"," ","'","a","'","\n","i","m","p","o","r","t"," ","b"," ","f","r","o","m"," ","'","b","'">>,
           <<"c","l","a","s","s"," ","C"," ","{","}">>>>
  ELSE <<<<"n","o","t","e","s">>, <<"n","o","t","e","s">>>>

\* the content of version ver of the file
fileContent(path, ver) ==
  LET versions == FileVersions(path) IN versions[((ver - 1) % Len(versions)) + 1]

\* what fs.stat reports for it: the size in bytes and the modification time
statOf(path, ver) == [size |-> Len(fileContent(path, ver)), mtime |-> ver]

\* the patterns of indexProject: source extensions, minus the excluded folders
GlobExtensions ==
  {<<".","t","s">>, <<".","j","s">>, <<".","t","s","x">>, <<".","j","s","x">>, <<".","p","y">>, <<".","j","s","o","n">>, <<".","m","d">>}

GlobExcluded == {<<"n","o","d","e","_","m","o","d","u","l","e","s">>, <<"d","i","s","t">>, <<"b","u","i","l","d">>, <<"c","o","v","e","r","a","g","e">>, <<".","g","i","t">>}

\* whether the patterns match a path below root, rel its segments from root
matchesRelative(path, rel) ==
  /\ \E ext \in GlobExtensions : endsWith(path, ext)
  /\ Head(rel) \notin GlobExcluded
  /\ \A k \in 1..Len(rel) : Head(rel[k]) # "."

matchesPatterns(root, path) ==
  isUnder(path, root) /\ matchesRelative(path, segments(relative(root, path)))

\* fastGlob rejects when it cannot list a directory it has to walk
globThrows(root) == \E d \in UnreadableDirs : d = root \/ isUnder(d, root)

(***************************************************************************)
(* Directories and project roots: normalizeProjectPath,                    *)
(* validateProjectRoot and generateFolderTree                              *)
(* (src/src/context-builder.ts)                                            *)
(***************************************************************************)

DirSrc == <<"/","p","/","s","r","c">>

DirSub == <<"/","k","/","s","u","b">>

\* a directory with no entry
DirEmpty == <<"/","e">>

\* a directory whose entries cannot be listed
DirLocked == <<"/","l">>

\* a path at which there is nothing
DirMissing == <<"/","x">>

FilePackage == <<"/","k","/","p","a","c","k","a","g","e",".","j","s","o","n">>

Directories == {<<"/">>, RootP, DirSrc, RootQ, RootK, DirSub, DirEmpty, DirLocked}

\* the files that are never changed
StaticFiles == {FileNotes, FilePackage}

\* every path below "/": in each directory the folders first, then the files
\* by name
AllPaths ==
  <<DirEmpty, RootK, DirLocked, RootP, RootQ,
    DirSub, FilePackage, DirSrc, FileIndex, FileNotes, FileUtil, FileC>>

\* fs.existsSync of an absolute, normalized path
existsSync(p, files) ==
  \/ p \in Directories
  \/ p \in StaticFiles
  \/ p \in Range(WatchedFiles) /\ files[p].st # "missing"

\* fs.lstatSync(p).isDirectory() of a path that exists
isDirectory(p) == p \in Directories

\* fs.lstatSync(p).size of a file that exists
sizeOf(p, files) ==
  IF p \in Range(WatchedFiles) THEN Len(fileContent(p, files[p].ver))
  ELSE IF p = FilePackage THEN 2
  ELSE Len(fileContent(p, 1))

\* fs.readdirSync throws EACCES on these
readdirThrows(dir) == dir \in UnreadableDirs

\* fs.readdirSync(dir), as full paths
readdirSync(dir, files) ==
  SelectSeq(AllPaths, LAMBDA p : dirname(p) = dir /\ existsSync(p, files))

\* path.join(dir, name)
joinPath(dir, name) == resolve(dir \o <<"/">> \o name)

\* the message of the error readdirSync and fastGlob throw on dir
accessDenied(dir) ==
  <<"E","A","C","C","E","S",":"," ","p","e","r","m","i","s","s","i","o","n"," ","d","e","n","i","e","d",","," ","s","c","a","n","d","i","r"," ","'">> \o dir \o <<"'">>

\* decodeURIComponent for the escapes %2F and %20; any other "%" is a
\* malformed escape, on which it throws
RECURSIVE decodeURIComponent(_)
decodeURIComponent(s) ==
  IF s = <<>> THEN [threw |-> FALSE, value |-> <<>>]
  ELSE IF Head(s) # "%"
    THEN LET rest == decodeURIComponent(Tail(s))
         IN  [threw |-> rest.threw, value |-> <<Head(s)>> \o rest.value]
  ELSE IF startsWith(s, <<"%","2","F">>) \/ startsWith(s, <<"%","2","0">>)
    THEN LET rest == decodeURIComponent(suffixFrom(s, 4))
         IN  [threw |-> rest.threw,
              value |-> (IF startsWith(s, <<"%","2","F">>) THEN <<"/">> ELSE <<" ">>) \o rest.value]
  ELSE [threw |-> TRUE, value |-> <<>>]

\* the decoded path when rawPath holds a "%" and decodes, rawPath otherwise
decodedOr(rawPath, decoding) ==
  IF includes(rawPath, <<"%">>) /\ ~decoding.threw THEN decoding.value ELSE rawPath

\* a leading file:// removed
stripFileScheme(decoded) ==
  IF startsWith(decoded, <<"f","i","l","e",":","/","/">>)
    THEN suffixFrom(decoded, Len(<<"f","i","l","e",":","/","/">>) + 1) ELSE decoded

\* a relative path resolved against the working directory
makeAbsolute(stripped) ==
  IF ~startsWith(stripped, <<"/">>) THEN resolve(stripped) ELSE stripped

normalizedResult(rawPath, changed, absolute, resolved) ==
  [normalizedPath |-> resolved,
   originalPath   |-> rawPath,
   wasNormalized  |-> changed \/ resolved # absolute]

normalizeAbsolute(rawPath, changed, stripped, absolute) ==
  normalizedResult(rawPath, changed \/ absolute # stripped, absolute, resolve(absolute))

normalizeStripped(rawPath, decoded, stripped) ==
  normalizeAbsolute(rawPath, decoded # rawPath \/ stripped # decoded, stripped,
                    makeAbsolute(stripped))

normalizeDecoded(rawPath, decoded) ==
  normalizeStripped(rawPath, decoded, stripFileScheme(decoded))

\* normalizeProjectPath on a POSIX platform (process.platform # 'win32'):
\* decoded, stripped of file://, made absolute, resolved
normalizeProjectPath(rawPath) ==
  normalizeDecoded(rawPath, decodedOr(rawPath, decodeURIComponent(rawPath)))

\* a projectRoot option: an absent one is the undefined of JavaScript
NoRoot == [defined |-> FALSE, value |-> <<>>]

rootOf(value) == [defined |-> TRUE, value |-> value]

SourceExtensions ==
  {<<".","t","s">>, <<".","j","s">>, <<".","j","s","x">>, <<".","t","s","x">>, <<".","p","y">>, <<".","j","a","v","a">>, <<".","g","o">>, <<".","p","h","p">>, <<".","r","b">>, <<".","r","s">>, <<".","c","p","p">>, <<".","c","s">>}

CommonSourceDirs == <<<<"s","r","c">>, <<"l","i","b">>, <<"a","p","p">>, <<"c","o","m","p","o","n","e","n","t","s">>, <<"p","a","g","e","s">>, <<"a","p","i">>>>

ProjectIndicators ==
  {<<"p","a","c","k","a","g","e",".","j","s","o","n">>, <<"g","o",".","m","o","d">>, <<"p","o","m",".","x","m","l">>, <<"b","u","i","l","d",".","g","r","a","d","l","e">>, <<"c","o","m","p","o","s","e","r",".","j","s","o","n">>,
   <<"r","e","q","u","i","r","e","m","e","n","t","s",".","t","x","t">>, <<"P","i","p","f","i","l","e">>, <<"C","a","r","g","o",".","t","o","m","l">>, <<"t","s","c","o","n","f","i","g",".","j","s","o","n">>}

\* readdirSync(dir).filter(f => isFile && sourceExtensions.some(f.endsWith))
sourceFilesIn(dir, files) ==
  SelectSeq(readdirSync(dir, files),
            LAMBDA p : ~isDirectory(p) /\ \E ext \in SourceExtensions : endsWith(p, ext))

\* the files found in the common source directories; a directory that cannot
\* be read is skipped
commonDirFiles(dir, files) ==
  flatten(seq([k \in 1..Len(CommonSourceDirs) |->
    LET sourceDirPath == joinPath(dir, CommonSourceDirs[k])
    IN  IF /\ existsSync(sourceDirPath, files)
           /\ isDirectory(sourceDirPath)
           /\ ~readdirThrows(sourceDirPath)
          THEN sourceFilesIn(sourceDirPath, files)
          ELSE <<>>]))

\* The messages of validateProjectRoot.  The source words them in Vietnamese;
\* here the wording is English, the interpolated values are the source's.
invalidRoot(text, rawPath, normalizedPath, detail) ==
  [threw |-> FALSE, valid |-> FALSE, normalizedPath |-> normalizedPath,
   message |-> text \o rawPath \o <<"\n","N","o","r","m","a","l","i","z","e","d"," ","p","a","t","h",":"," ">> \o normalizedPath \o detail]

validRoot(normalizedPath) ==
  [threw |-> FALSE, valid |-> TRUE, normalizedPath |-> normalizedPath, message |-> <<>>]

\* projectIndicators.some(indicator => fs.existsSync(path.join(dir, indicator)))
hasProjectIndicators(dir, files) ==
  \E indicator \in ProjectIndicators : existsSync(joinPath(dir, indicator), files)

\* the check of the source files of a directory that can be read
validateSources(rawPath, dir, files, rootFiles, commonFiles) ==
  IF hasProjectIndicators(dir, files) THEN validRoot(dir)
  ELSE IF Len(rootFiles \o commonFiles) = 0
    THEN invalidRoot(<<"N","o"," ","s","o","u","r","c","e"," ","f","i","l","e","s"," ","f","o","u","n","d"," ","i","n"," ","d","i","r","e","c","t","o","r","y",":"," ">>, rawPath, dir,
                     <<"\n","-"," ","R","o","o","t"," ","d","i","r","e","c","t","o","r","y",":"," ">> \o toDecimal(Len(rootFiles))
                     \o <<" ","f","i","l","e","s","\n","-"," ","C","o","m","m","o","n"," ","s","o","u","r","c","e"," ","d","i","r","s",":"," ">>
                     \o toDecimal(Len(commonFiles))
                     \o <<" ","f","i","l","e","s","\n","-"," ","P","r","o","j","e","c","t"," ","i","n","d","i","c","a","t","o","r","s",":"," ","n","o","n","e">>)
  ELSE validRoot(dir)

\* the checks of the normalized path dir
validateNormalized(rawPath, dir, files) ==
  IF ~existsSync(dir, files)
    THEN invalidRoot(<<"P","r","o","j","e","c","t"," ","d","i","r","e","c","t","o","r","y"," ","n","o","t"," ","f","o","u","n","d"," ","a","t"," ","p","a","t","h",":"," ">>, rawPath, dir, <<>>)
  ELSE IF ~isDirectory(dir)
    THEN invalidRoot(<<"P","a","t","h"," ","i","s"," ","n","o","t"," ","a"," ","d","i","r","e","c","t","o","r","y",":"," ">>, rawPath, dir, <<>>)
  ELSE IF readdirThrows(dir)
    THEN invalidRoot(<<"C","a","n","n","o","t"," ","r","e","a","d"," ","d","i","r","e","c","t","o","r","y",":"," ">>, rawPath, dir,
                     <<"\n","E","r","r","o","r",":"," ">> \o accessDenied(dir))
  ELSE validateSources(rawPath, dir, files, sourceFilesIn(dir, files),
                       commonDirFiles(dir, files))

\* validateProjectRoot: threw = TRUE when rawPath.includes is read of undefined
validateProjectRoot(rootOption, files) ==
  IF ~rootOption.defined
    THEN [threw |-> TRUE, valid |-> FALSE, normalizedPath |-> <<>>,
          message |-> <<"C","a","n","n","o","t"," ","r","e","a","d"," ","p","r","o","p","e","r","t","i","e","s"," ","o","f"," ","u","n","d","e","f","i","n","e","d"," ","(","r","e","a","d","i","n","g"," ","'","i","n","c","l","u","d","e","s","'",")">>]
    ELSE validateNormalized(rootOption.value,
                            normalizeProjectPath(rootOption.value).normalizedPath, files)

\* formatFileSize of a size below 1024 bytes
formatFileSize(bytes) == toDecimal(bytes) \o <<" ","B">>

\* formatTree(buildTree(p)): one line per node, the children of a directory
\* below it.  A directory that cannot be read has no children.  The source
\* draws the connectors and icons with box characters and emoji.
RECURSIVE treeLines(_, _, _, _)
\* the lines of the children of a node
treeChildren(children, nextPrefix, files) ==
  flatten(seq([k \in 1..Len(children) |->
    treeLines(children[k], nextPrefix, k = Len(children), files)]))

treeLines(p, prefix, isLast, files) ==
  LET connector == IF isLast THEN <<"+","-","-"," ">> ELSE <<"|","-","-"," ">>
      icon      == IF isDirectory(p) THEN <<"[","d","i","r","]"," ">> ELSE <<"[","f","i","l","e","]"," ">>
      sizeInfo  == IF ~isDirectory(p) /\ sizeOf(p, files) # 0
                     THEN <<" ","(">> \o formatFileSize(sizeOf(p, files)) \o <<")">> ELSE <<>>
  IN  <<prefix \o connector \o icon \o basename(p) \o sizeInfo>>
      \o treeChildren(IF isDirectory(p) /\ ~readdirThrows(p)
                        THEN readdirSync(p, files) ELSE <<>>,
                      prefix \o (IF isLast THEN <<" "," "," "," ">> ELSE <<"|"," "," "," ">>),
                      files)

\* the tree of rootPath, which fs resolves against the working directory
folderTreeOf(rootPath, resolved, files) ==
  IF ~existsSync(resolved, files)
    THEN [threw |-> FALSE,
          text |-> <<"[","d","i","r","]"," ">> \o basename(rootPath)
                   \o <<"\n","+","-","-"," ","[","f","i","l","e","]"," ","(","D","i","r","e","c","t","o","r","y"," ","n","o","t"," ","f","o","u","n","d",":"," ">> \o rootPath \o <<")">>]
    ELSE [threw |-> FALSE,
          text |-> join(treeLines(resolved, <<>>, TRUE, files), NewLine)]

\* generateFolderTree: threw = TRUE when path.basename(undefined) throws, in
\* the try block and again in the catch block
generateFolderTree(rootOption, files) ==
  IF ~rootOption.defined THEN [threw |-> TRUE, text |-> <<>>]
  ELSE folderTreeOf(rootOption.value, resolve(rootOption.value), files)

(***************************************************************************)
(* Ranking requests: findRelevantFiles applied to file lists as the        *)
(* analyzer cache delivers them (getAllFiles)                              *)
(***************************************************************************)

\* longest file list handed to findRelevantFiles
MaxFiles == 21

\* kinds of source file: a function, a class, an entry point without either,
\* an importing module, a Python script, a file that cannot be read
SampleKinds ==
  <<[stem |-> <<"s","r","c","/","f","o","o">>,
     ext |-> <<".","t","s">>,
     content |-> <<"e","x","p","o","r","t"," ","f","u","n","c","t","i","o","n"," ",
                   "f","o","o","(",")"," ","{","}","\n","f","o","o","(",")">>,
     readable |-> TRUE],
    [stem |-> <<"l","i","b","/","B","a","r">>,
     ext |-> <<".","t","s">>,
     content |-> <<"c","l","a","s","s"," ","B","a","r"," ","{","}">>,
     readable |-> TRUE],
    [stem |-> <<"i","n","d","e","x">>,
     ext |-> <<".","j","s">>,
     content |-> <<"r","u","n","(",")">>,
     readable |-> TRUE],
    [stem |-> <<"a","p","p","/","u","s","e">>,
     ext |-> <<".","t","s">>,
     content |-> <<"i","m","p","o","r","t"," ","f","o","o"," ","f","r","o","m"," ",
                   "'",".","/","f","o","o","'">>,
     readable |-> TRUE],
    [stem |-> <<"t","o","o","l">>,
     ext |-> <<".","p","y">>,
     content |-> <<"i","m","p","o","r","t"," ","f","o","o">>,
     readable |-> TRUE],
    [stem |-> <<"s","r","c","/","g","o","n","e">>,
     ext |-> <<".","t","s">>,
     content |-> <<>>,
     readable |-> FALSE]>>

\* "a is on", "foo", "the Bar class", "nothing here", "foo( bar", "f.o"
SampleQueries ==
  {<<"a"," ","i","s"," ","o","n">>,
   <<"f","o","o">>,
   <<"t","h","e"," ","B","a","r"," ","c","l","a","s","s">>,
   <<"n","o","t","h","i","n","g"," ","h","e","r","e">>,
   <<"f","o","o","("," ","b","a","r">>,
   <<"f",".","o">>}

\* the scope option: absent, the two values the ranker knows, and the
\* server's default "feature"
SampleScopes == {"undefined", "function", "class", "feature"}

\* the i-th file of a list, of kind k, as analyzeFile records it under /p
sampleFile(k, i) ==
  LET kind == SampleKinds[k]
      filePath == RootP \o <<"/">> \o kind.stem \o toDecimal(i) \o kind.ext
  IN  IF kind.readable
        THEN buildFileInfo(filePath, RootP, kind.content, Len(kind.content), 1)
        ELSE minimalFileInfo(filePath, RootP)

SampleFiles ==
  seq([k \in 1..Len(SampleKinds) |-> seq([i \in 1..MaxFiles |-> sampleFile(k, i)])])

\* the orders in which the kinds of file follow each other in a list
SamplePatterns ==
  {<<1>>, <<1, 2>>, <<4, 1>>, <<3, 4>>, <<5, 6>>, <<2, 5, 1>>, <<6, 3, 1, 4>>}

\* list lengths: the short lists and the lengths around the cut-offs 10 and 20
SampleLengths == (0..3) \cup (10..12) \cup {MaxFiles - 1, MaxFiles}

\* the list of n files whose kinds repeat the pattern
sampleList(pattern, n) ==
  seq([i \in 1..n |-> SampleFiles[pattern[((i - 1) % Len(pattern)) + 1]][i]])

(***************************************************************************)
(* State                                                                   *)
(***************************************************************************)

VARIABLES
  fsFiles,      \* the watched files: [st, ver] per path
  fsChanges,    \* number of changes made to them so far
  projectRoot,  \* ProjectAnalyzer.projectRoot
  cache,        \* ProjectAnalyzer.cache, in the insertion order of the Map
  batches,      \* the indexProject and reindexFiles calls made so far
  tasks,        \* the analyzeFile calls made so far
  rkFiles, rkQuery, rkScope, rkResult, rkPc,  \* one findRelevantFiles call
  bcOptions,    \* the options of one buildCompleteContext call
  bcPc,         \* where that call is
  bcLocals,     \* its local variables
  bcFailure,    \* the exception its catch block caught, if any
  bcResponse,   \* the response it returned
  call,         \* one call of a method on a text: the method and its arguments
  callPc,       \* where that call is
  callResult,   \* what it returned
  watcher,      \* FileWatcher.watcher: the number of a watcher, 0 for undefined
  watchedPaths, \* FileWatcher.watchedPaths
  watchers,     \* the chokidar watchers made so far, with their closures
  watchCalls,   \* the watch and stopWatching calls made so far
  changeEvents, \* number of events the watchers have emitted
  onChangeCalls \* the invocations of the onChange callbacks

fsVars == <<fsFiles, fsChanges>>

analyzerVars == <<projectRoot, cache, batches, tasks>>

rankVars == <<rkFiles, rkQuery, rkScope, rkResult, rkPc>>

builderVars == <<bcOptions, bcPc, bcLocals, bcFailure, bcResponse>>

callVars == <<call, callPc, callResult>>

watcherVars ==
  <<watcher, watchedPaths, watchers, watchCalls, changeEvents, onChangeCalls>>

vars == <<fsVars, analyzerVars, rankVars, builderVars, callVars, watcherVars>>

(***************************************************************************)
(* ProjectAnalyzer: indexProject, analyzeFile, reindexFiles                *)
(***************************************************************************)

\* a Map that keeps the old record of a known key beside the new one
cacheSetAppend(c, info) == Append(c, info)

\* Map.prototype.set: a known key keeps its place, a new key goes last
cacheSet(c, info) ==
  IF \E k \in 1..Len(c) : c[k].path = info.path
    THEN seq([k \in 1..Len(c) |-> IF c[k].path = info.path THEN info ELSE c[k]])
    ELSE Append(c, info)

cacheHas(c, path) == \E k \in 1..Len(c) : c[k].path = path

\* Map.prototype.get of a key the Map holds
cacheGet(c, path) == c[CHOOSE k \in 1..Len(c) : c[k].path = path]

\* the files fastGlob finds below root, the watched ones in directory order
globFiles(root, files) ==
  SelectSeq(WatchedFiles \o <<FileNotes>>,
            LAMBDA path : /\ matchesPatterns(root, path)
                          /\ path = FileNotes \/ files[path].st # "missing")

\* the catch block rethrowing instead of degrading to the minimal record
onAnalyzeErrorRethrow(filePath, root) ==
  [threw |-> TRUE, info |-> minimalFileInfo(filePath, root)]

\* the catch block of analyzeFile: a minimal record, stored and returned
onAnalyzeError(filePath, root) ==
  [threw |-> FALSE, info |-> minimalFileInfo(filePath, root)]

\* the values this.projectRoot takes
KnownRoots == <<<<>>, RootP, RootQ, RootK>>

positionIn(s, x) == CHOOSE k \in 1..Len(s) : s[k] = x

\* the facts analyzeFile extracts from each version of each file under each
\* root, computed once
ExtractedFacts ==
  seq([r \in 1..Len(KnownRoots) |->
    seq([p \in 1..Len(WatchedFiles) |->
      seq([v \in 1..Len(FileVersions(WatchedFiles[p])) |->
        buildFileInfo(WatchedFiles[p], KnownRoots[r],
                      FileVersions(WatchedFiles[p])[v], 0, 0)])])])

\* the record of version ver among the records of a file's versions
versionOf(versions, ver) == versions[((ver - 1) % Len(versions)) + 1]

\* the try block of analyzeFile once stat and readFile have succeeded: the
\* facts of the version read, the size and time of the version stat saw
onAnalyzeSuccess(filePath, root, ver, stats) ==
  [versionOf(ExtractedFacts[positionIn(KnownRoots, root)][positionIn(WatchedFiles, filePath)],
             ver)
     EXCEPT !.size = stats.size, !.lastModified = stats.mtime]

NoStats == [size |-> 0, mtime |-> 0]

\* nothing read yet
NoRead == [st |-> "missing", ver |-> 0]

newTask(batch, filePath) ==
  [batch |-> batch, path |-> filePath, pc |-> "stat", stats |-> NoStats,
   read |-> NoRead, failed |-> FALSE, result |-> minimalFileInfo(filePath, <<>>)]

newTasks(batch, paths) == seq([k \in 1..Len(paths) |-> newTask(batch, paths[k])])

AnalyzerInit ==
  /\ projectRoot = <<>>
  /\ cache = <<>>
  /\ batches = <<>>
  /\ tasks = <<>>

FsInit ==
  /\ fsFiles = [path \in Range(WatchedFiles) |->
                  [st |-> IF path = FileUtil THEN "locked" ELSE "file", ver |-> 1]]
  /\ fsChanges = 0

\* indexProject up to its await of fastGlob
IndexProject(root) ==
  /\ Len(batches) < MaxBatches
  /\ projectRoot' = root
  /\ batches' = Append(batches, [kind |-> "index", root |-> root, pc |-> "glob",
                                 paths |-> <<>>, rejectedBy |-> "none"])
  /\ UNCHANGED <<cache, tasks>>

\* fastGlob settles: indexProject rethrows its rejection, otherwise
\* files.map(analyzeFile) starts one analysis per file
GlobResolves(b) ==
  /\ batches[b].pc = "glob"
  /\ IF globThrows(batches[b].root)
       THEN /\ batches' = [batches EXCEPT ![b].pc = "failed", ![b].rejectedBy = "fastGlob"]
            /\ UNCHANGED tasks
       ELSE LET files == globFiles(batches[b].root, fsFiles)
            IN  /\ batches' = [batches EXCEPT ![b].pc = "analyzing", ![b].paths = files]
                /\ tasks' = tasks \o newTasks(b, files)
  /\ UNCHANGED <<projectRoot, cache>>

\* reindexFiles up to its await of Promise.all
ReindexFiles(changedFiles) ==
  /\ Len(batches) < MaxBatches
  /\ batches' = Append(batches, [kind |-> "reindex", root |-> projectRoot,
                                 pc |-> "analyzing", paths |-> changedFiles,
                                 rejectedBy |-> "none"])
  /\ tasks' = tasks \o newTasks(Len(batches) + 1, changedFiles)
  /\ UNCHANGED <<projectRoot, cache>>

\* the analysis of task t ends with outcome, that of the catch block
analysisEnds(t, outcome) ==
  IF outcome.threw
    THEN /\ tasks' = [tasks EXCEPT ![t].pc = "threw", ![t].failed = TRUE]
         /\ UNCHANGED cache
    ELSE /\ tasks' = [tasks EXCEPT ![t].pc = "returned", ![t].failed = TRUE,
                                    ![t].result = outcome.info]
         /\ cache' = cacheSet(cache, outcome.info)

\* the analysis of task t ends in the catch block
analysisFails(t) == analysisEnds(t, onAnalyzeError(tasks[t].path, projectRoot))

\* the analysis of task t ends in the try block: the record is stored and
\* returned
analysisSucceeds(t, info) ==
  /\ tasks' = [tasks EXCEPT ![t].pc = "returned", ![t].result = info]
  /\ cache' = cacheSet(cache, info)

\* fs.stat settles
AnalyzeStat(t) ==
  /\ tasks[t].pc = "stat"
  /\ IF fsFiles[tasks[t].path].st = "missing"
       THEN analysisFails(t)
       ELSE /\ tasks' = [tasks EXCEPT ![t].pc = "read",
                           ![t].stats = statOf(tasks[t].path, fsFiles[tasks[t].path].ver)]
            /\ UNCHANGED cache
  /\ UNCHANGED <<projectRoot, batches>>

\* fs.readFile does its work: the file is read, or found missing or
\* unreadable, as it is at that moment; the promise settles later
ReadFile(t) ==
  /\ tasks[t].pc = "read"
  /\ tasks' = [tasks EXCEPT ![t].pc = "readDone", ![t].read = fsFiles[tasks[t].path]]
  /\ UNCHANGED <<projectRoot, cache, batches>>

\* fs.readFile settles; the rest of analyzeFile runs without a further await
AnalyzeRead(t) ==
  /\ tasks[t].pc = "readDone"
  /\ IF tasks[t].read.st # "file"
       THEN analysisFails(t)
       ELSE analysisSucceeds(t, onAnalyzeSuccess(tasks[t].path, projectRoot,
                                                 tasks[t].read.ver,
                                                 tasks[t].stats))
  /\ UNCHANGED <<projectRoot, batches>>

tasksOf(b) == {t \in 1..Len(tasks) : tasks[t].batch = b}

\* Promise.all settles: fulfilled when every analysis returned, rejected when
\* one threw; indexProject rethrows the rejection
BatchSettles(b) ==
  /\ batches[b].pc = "analyzing"
  /\ LET rejected == \E t \in tasksOf(b) : tasks[t].pc = "threw"
     IN  /\ rejected \/ \A t \in tasksOf(b) : tasks[t].pc = "returned"
         /\ batches' = [batches EXCEPT ![b].pc = IF rejected THEN "failed" ELSE "done",
                                        ![b].rejectedBy = IF rejected THEN "analyzeFile" ELSE @]
  /\ UNCHANGED <<projectRoot, cache, tasks>>

(***************************************************************************)
(* Changes to the files                                                    *)
(***************************************************************************)

\* a file is created or rewritten: its next version
FsWrite(path) ==
  /\ fsChanges < MaxFsChanges
  /\ fsFiles' = [fsFiles EXCEPT ![path] = [st |-> "file", ver |-> @.ver + 1]]
  /\ fsChanges' = fsChanges + 1

FsDelete(path) ==
  /\ fsChanges < MaxFsChanges
  /\ fsFiles[path].st # "missing"
  /\ fsFiles' = [fsFiles EXCEPT ![path].st = "missing"]
  /\ fsChanges' = fsChanges + 1

(***************************************************************************)
(* FileWatcher: watch, stopWatching and the debounced change queue         *)
(* (src/src/file-watcher.ts)                                               *)
(***************************************************************************)

\* setTimeout(processChanges, 500), in units of time of 250 ms
DebounceTicks == 2

\* number of watch and stopWatching calls
MaxWatcherCalls == 2

\* number of events the chokidar watchers emit
MaxChangeEvents == 3

\* the extensions of focusedPatterns
FocusedExtensions ==
  {<<".","j","s">>, <<".","j","s","x">>, <<".","t","s">>, <<".","t","s","x">>, <<".","g","o">>, <<".","p","h","p">>, <<".","j","a","v","a">>, <<".","p","y">>, <<".","h","t","m","l">>, <<".","h","t","m">>, <<".","c","s","s">>,
   <<".","s","c","s","s">>, <<".","s","a","s","s">>, <<".","j","s","o","n">>, <<".","y","a","m","l">>, <<".","y","m","l">>, <<".","i","n","i">>, <<".","c","f","g">>, <<".","c","o","n","f">>, <<".","c","o","n","f","i","g">>, <<".","m","d">>, <<".","t","x","t">>}

\* the folders of the ignored option
IgnoredFolders == {<<"n","o","d","e","_","m","o","d","u","l","e","s">>, <<"d","i","s","t">>, <<"b","u","i","l","d">>, <<"t","a","r","g","e","t">>, <<"v","e","n","d","o","r">>, <<".","g","i","t">>, <<"c","o","v","e","r","a","g","e">>}

\* whether a watcher on projectRoot reports the changes of filePath
isFocused(root, filePath) ==
  /\ isUnder(filePath, root)
  /\ \E ext \in FocusedExtensions : endsWith(filePath, ext)
  /\ \A k \in 1..(Len(segments(filePath)) - 1) : segments(filePath)[k] \notin IgnoredFolders

\* the files whose changes are reported
ChangedFiles == {FileIndex, FileUtil, FileC}

NoTimeout == 0

\* chokidar.watch(...) and the closure of the watch call that made it: its
\* changeQueue and changeTimeout, the timers it has set, and what an observer
\* sees of it: the paths emitted since onChange was last invoked, the time
\* since the last event (counted up to DebounceTicks), and whether
\* stopWatching has resolved or a later watch call has made a watcher since
newWatcher(root) ==
  [root |-> root, closed |-> FALSE, changeQueue |-> <<>>, changeTimeout |-> NoTimeout,
   timers |-> <<>>, emitted |-> <<>>, idle |-> DebounceTicks, retired |-> FALSE]

\* clearTimeout(changeTimeout) when changeTimeout is set
clearChangeTimeout(w) ==
  IF w.changeTimeout # NoTimeout
    THEN [w.timers EXCEPT ![w.changeTimeout].state = "cleared"]
    ELSE w.timers

\* queueChange without the clearTimeout
queueChangeUncleared(w, filePath) ==
  [w EXCEPT !.changeQueue = IF \E k \in 1..Len(w.changeQueue) : w.changeQueue[k] = filePath
                              THEN w.changeQueue ELSE Append(w.changeQueue, filePath),
            !.timers = Append(w.timers, [state |-> "pending", remaining |-> DebounceTicks]),
            !.changeTimeout = Len(w.timers) + 1]

\* queueChange(filePath): the path queued once, the timer set anew
queueChange(w, filePath) ==
  [w EXCEPT !.changeQueue = IF \E k \in 1..Len(w.changeQueue) : w.changeQueue[k] = filePath
                              THEN w.changeQueue ELSE Append(w.changeQueue, filePath),
            !.timers = Append(clearChangeTimeout(w),
                              [state |-> "pending", remaining |-> DebounceTicks]),
            !.changeTimeout = Len(w.timers) + 1]

\* processChanges, run by timer t: the queue emptied when it holds a path,
\* changeTimeout reset
processChanges(w, t) ==
  [w EXCEPT !.changeQueue = <<>>,
            !.changeTimeout = NoTimeout,
            !.timers[t].state = "fired",
            !.emitted = IF w.changeQueue # <<>> THEN <<>> ELSE w.emitted]

\* the invocation onChange([...changeQueue]) of the callback of watcher k
onChangeCall(k, w) ==
  [watcher |-> k, changedFiles |-> w.changeQueue, emitted |-> w.emitted,
   idle |-> w.idle, retired |-> w.retired]

\* one unit of time passes for a watcher
afterTick(w) ==
  [w EXCEPT !.idle = min(w.idle + 1, DebounceTicks),
            !.timers = seq([t \in 1..Len(w.timers) |->
                         IF w.timers[t].state = "pending" /\ w.timers[t].remaining > 0
                           THEN [w.timers[t] EXCEPT !.remaining = w.timers[t].remaining - 1]
                           ELSE w.timers[t]])]

\* every watcher made so far is one of an earlier watch call
retire(ws) == seq([k \in 1..Len(ws) |-> [ws[k] EXCEPT !.retired = TRUE]])

\* this.watcher.close(): the watcher emits no further event
closeWatcher(ws, k) == [ws EXCEPT ![k].closed = TRUE]

WatcherIdle ==
  /\ watcher = 0
  /\ watchedPaths = {}
  /\ watchers = <<>>
  /\ watchCalls = <<>>
  /\ changeEvents = 0
  /\ onChangeCalls = <<>>

\* the rest of watch once no watcher is open: the new watcher with its
\* handlers, this.watchedPaths.add(projectRoot)
createWatcher(root) ==
  /\ watchers' = Append(retire(watchers), newWatcher(root))
  /\ watcher' = Len(watchers) + 1
  /\ watchedPaths' = watchedPaths \cup {root}

\* watch(projectRoot, onChange) up to its await of close; without a watcher
\* to close it runs to its end
Watch(root) ==
  /\ Len(watchCalls) < MaxWatcherCalls
  /\ IF watcher # 0
       THEN /\ watchers' = closeWatcher(watchers, watcher)
            /\ watchCalls' = Append(watchCalls, [method |-> "watch", root |-> root,
                                                 pc |-> "closing"])
            /\ UNCHANGED <<watcher, watchedPaths>>
       ELSE /\ createWatcher(root)
            /\ watchCalls' = Append(watchCalls, [method |-> "watch", root |-> root,
                                                 pc |-> "done"])
  /\ UNCHANGED <<changeEvents, onChangeCalls>>

\* the await of close in watch settles
WatchResumes(c) ==
  /\ watchCalls[c].method = "watch"
  /\ watchCalls[c].pc = "closing"
  /\ createWatcher(watchCalls[c].root)
  /\ watchCalls' = [watchCalls EXCEPT ![c].pc = "done"]
  /\ UNCHANGED <<changeEvents, onChangeCalls>>

\* stopWatching() up to its await of close; without a watcher it does nothing
StopWatching ==
  /\ Len(watchCalls) < MaxWatcherCalls
  /\ IF watcher # 0
       THEN /\ watchers' = closeWatcher(watchers, watcher)
            /\ watchCalls' = Append(watchCalls, [method |-> "stopWatching", root |-> <<>>,
                                                 pc |-> "closing"])
       ELSE /\ watchers' = retire(watchers)
            /\ watchCalls' = Append(watchCalls, [method |-> "stopWatching", root |-> <<>>,
                                                 pc |-> "done"])
  /\ UNCHANGED <<watcher, watchedPaths, changeEvents, onChangeCalls>>

\* the await of close in stopWatching settles
StopResumes(c) ==
  /\ watchCalls[c].method = "stopWatching"
  /\ watchCalls[c].pc = "closing"
  /\ watcher' = 0
  /\ watchedPaths' = {}
  /\ watchers' = retire(watchers)
  /\ watchCalls' = [watchCalls EXCEPT ![c].pc = "done"]
  /\ UNCHANGED <<changeEvents, onChangeCalls>>

\* watcher k emits an event for filePath and its handler runs
emits(k, filePath) ==
  /\ changeEvents < MaxChangeEvents
  /\ ~watchers[k].closed
  /\ isFocused(watchers[k].root, filePath)
  /\ watchers' = [watchers EXCEPT
                    ![k] = [queueChange(watchers[k], filePath) EXCEPT
                              !.emitted = Append(watchers[k].emitted, filePath),
                              !.idle = 0]]
  /\ changeEvents' = changeEvents + 1
  /\ UNCHANGED <<watcher, watchedPaths, watchCalls, onChangeCalls>>

\* the handler of 'add'
OnAdd(k, filePath) == emits(k, filePath)

\* the handler of 'change'
OnChange(k, filePath) == emits(k, filePath)

\* the handler of 'unlink'
OnUnlink(k, filePath) == emits(k, filePath)

\* timer t of watcher k is due and runs processChanges
TimerFires(k, t) ==
  /\ watchers[k].timers[t].state = "pending"
  /\ watchers[k].timers[t].remaining = 0
  /\ watchers' = [watchers EXCEPT ![k] = processChanges(watchers[k], t)]
  /\ onChangeCalls' = IF watchers[k].changeQueue # <<>>
                        THEN Append(onChangeCalls, onChangeCall(k, watchers[k]))
                        ELSE onChangeCalls
  /\ UNCHANGED <<watcher, watchedPaths, watchCalls, changeEvents>>

\* one unit of time passes
TimePasses ==
  /\ watchers' = seq([k \in 1..Len(watchers) |-> afterTick(watchers[k])])
  /\ watchers' # watchers
  /\ UNCHANGED <<watcher, watchedPaths, watchCalls, changeEvents, onChangeCalls>>

(***************************************************************************)
(* ContextBuilder.buildCompleteContext (src/src/context-builder.ts)        *)
(***************************************************************************)

\* estimatedTokens and tokenCount of the error responses
ErrorTokenEstimate == 100

ClosingInvalid == <<"P","l","e","a","s","e"," ","c","h","e","c","k"," ","t","h","e"," ","p","r","o","j","e","c","t"," ","s","t","r","u","c","t","u","r","e"," ","b","e","l","o","w"," ","a","n","d"," ","a","d","j","u","s","t"," ","a","c","c","o","r","d","i","n","g","l","y",".">>

ClosingCatch == <<"P","l","e","a","s","e"," ","c","h","e","c","k"," ","t","h","e"," ","p","r","o","j","e","c","t"," ","s","t","r","u","c","t","u","r","e"," ","b","e","l","o","w"," ","t","o"," ","u","n","d","e","r","s","t","a","n","d"," ","t","h","e"," ","i","s","s","u","e",".">>

\* an error response whose token estimate is computed from its document
errorResponseEstimated(query, message, closing, folderTree) ==
  LET document == <<"#"," ","E","r","r","o","r"," ","B","u","i","l","d","i","n","g"," ","C","o","n","t","e","x","t","\n","\n","A","n"," ","e","r","r","o","r"," ","o","c","c","u","r","r","e","d"," ","w","h","i","l","e"," ","b","u","i","l","d","i","n","g"," ","c","o","n","t","e","x","t"," ","f","o","r"," ","q","u","e","r","y",":"," ","\"">>
                  \o query \o <<"\"","\n","\n","E","r","r","o","r",":"," ">> \o message \o <<"\n","\n">> \o closing
  IN  [formattedContext |-> document,
       metadata |-> [totalFiles |-> 0, totalLines |-> 0, totalFunctions |-> 0,
                     totalClasses |-> 0, primaryLanguage |-> "unknown",
                     estimatedTokens |-> estimateTokenCount(document)],
       summary |-> <<"E","r","r","o","r"," ","o","c","c","u","r","r","e","d"," ","d","u","r","i","n","g"," ","c","o","n","t","e","x","t"," ","b","u","i","l","d","i","n","g"," ","-"," ","c","h","e","c","k"," ","f","o","l","d","e","r"," ","s","t","r","u","c","t","u","r","e">>,
       folderTree |-> folderTree,
       dependencyGraph |-> [nodes |-> <<>>, edges |-> <<>>],
       usagePatterns |-> [patterns |-> <<>>],
       filesIncluded |-> <<>>,
       totalLines |-> 0,
       compressionLevel |-> "error",
       tokenCount |-> estimateTokenCount(document)]

\* the response of the invalid-root branch and of the catch block
errorResponse(query, message, closing, folderTree) ==
  LET document == <<"#"," ","E","r","r","o","r"," ","B","u","i","l","d","i","n","g"," ","C","o","n","t","e","x","t","\n","\n","A","n"," ","e","r","r","o","r"," ","o","c","c","u","r","r","e","d"," ","w","h","i","l","e"," ","b","u","i","l","d","i","n","g"," ","c","o","n","t","e","x","t"," ","f","o","r"," ","q","u","e","r","y",":"," ","\"">>
                  \o query \o <<"\"","\n","\n","E","r","r","o","r",":"," ">> \o message \o <<"\n","\n">> \o closing
  IN  [formattedContext |-> document,
       metadata |-> [totalFiles |-> 0, totalLines |-> 0, totalFunctions |-> 0,
                     totalClasses |-> 0, primaryLanguage |-> "unknown",
                     estimatedTokens |-> ErrorTokenEstimate],
       summary |-> <<"E","r","r","o","r"," ","o","c","c","u","r","r","e","d"," ","d","u","r","i","n","g"," ","c","o","n","t","e","x","t"," ","b","u","i","l","d","i","n","g"," ","-"," ","c","h","e","c","k"," ","f","o","l","d","e","r"," ","s","t","r","u","c","t","u","r","e">>,
       folderTree |-> folderTree,
       dependencyGraph |-> [nodes |-> <<>>, edges |-> <<>>],
       usagePatterns |-> [patterns |-> <<>>],
       filesIncluded |-> <<>>,
       totalLines |-> 0,
       compressionLevel |-> "error",
       tokenCount |-> ErrorTokenEstimate]

\* the value of a response that does not exist
NoResponse == [compressionLevel |-> "none"]

\* no exception was raised
NoFailure == [occurred |-> FALSE, message |-> <<>>]

failureOf(message) == [occurred |-> TRUE, message |-> message]

\* the outcome of the catch block once its folder tree was generated
errorOutcome(options, message, folderTreeForError) ==
  IF folderTreeForError.threw
    THEN [pc |-> "rejected", response |-> NoResponse]
    ELSE [pc |-> "returned",
          response |-> errorResponse(options.query, message, ClosingCatch,
                                     folderTreeForError.text)]

\* The catch block of buildCompleteContext.  Its generateFolderTree call is
\* outside any try: when it throws, the promise rejects.
onBuildError(options, message, files) ==
  errorOutcome(options, message, generateFolderTree(options.projectRoot, files))

\* Object.entries(languageCount).reduce((a, b) => count[a] > count[b] ? a : b)
\* over the languages in the order of their first file
RECURSIVE reduceLanguages(_, _, _)
reduceLanguages(languages, files, k) ==
  LET count(language) == Cardinality({j \in 1..Len(files) : files[j].language = language})
  IN  IF k = 1 THEN languages[1]
      ELSE LET a == reduceLanguages(languages, files, k - 1)
           IN  IF count(a) > count(languages[k]) THEN a ELSE languages[k]

\* the primary language of the metadata: threw = TRUE when reduce is called on
\* an empty array without an initial value
primaryLanguageOf(files) ==
  LET languages == firstOccurrences(seq([k \in 1..Len(files) |-> files[k].language]))
  IN  IF Len(languages) = 0
        THEN [threw |-> TRUE, language |-> "unknown",
              message |-> <<"R","e","d","u","c","e"," ","o","f"," ","e","m","p","t","y"," ","a","r","r","a","y"," ","w","i","t","h"," ","n","o"," ","i","n","i","t","i","a","l"," ","v","a","l","u","e">>]
        ELSE [threw |-> FALSE, message |-> <<>>,
              language |-> LET kept == reduceLanguages(languages, files, Len(languages))
                           IN  IF kept = "" THEN "typescript" ELSE kept]

\* a compression level that ignores the completeness option
initialCompressionLevelFull(options) == "full"

\* options.completeness || 'full'
initialCompressionLevel(options) ==
  IF options.completeness \in {"undefined", ""} THEN "full" ELSE options.completeness

\* a maxTokens option that is absent: the undefined of JavaScript
NoMaxTokens == [defined |-> FALSE, value |-> 0]

maxTokensOf(value) == [defined |-> TRUE, value |-> value]

\* options.maxTokens as a condition: undefined and 0 are both falsy
hasTokenLimit(options) == options.maxTokens.defined /\ options.maxTokens.value # 0

\* options.maxTokens && estimatedTokens > options.maxTokens
needsCompression(options, estimatedTokens) ==
  hasTokenLimit(options) /\ estimatedTokens > options.maxTokens.value

\* the return statement
responseRecord(locals, finalContext, finalTokenCount, compressionLevel) ==
  [formattedContext |-> finalContext,
   metadata |-> [totalFiles |-> Len(locals.relevantFiles),
                 totalLines |-> totalLinesOf(locals.relevantFiles),
                 totalFunctions |-> totalFunctionsOf(locals.relevantFiles),
                 totalClasses |-> totalClassesOf(locals.relevantFiles),
                 primaryLanguage |-> primaryLanguageOf(locals.relevantFiles).language,
                 estimatedTokens |-> finalTokenCount],
   summary |-> generateContextSummary(locals.relevantFiles, locals.dependencyGraph,
                                      locals.usagePatterns),
   folderTree |-> locals.folderTree,
   dependencyGraph |-> locals.dependencyGraph,
   usagePatterns |-> locals.usagePatterns,
   filesIncluded |-> seq([k \in 1..Len(locals.relevantFiles) |->
                            locals.relevantFiles[k].relativePath]),
   totalLines |-> totalLinesOf(locals.relevantFiles),
   compressionLevel |-> compressionLevel,
   tokenCount |-> finalTokenCount]

\* step 10: the document compressed when it exceeds maxTokens
compressedResponse(options, locals, compress, finalContext) ==
  responseRecord(locals, finalContext, estimateTokenCount(finalContext),
                 IF compress THEN "compressed" ELSE initialCompressionLevel(options))

compressWhen(options, locals, compress) ==
  compressedResponse(options, locals, compress,
                     IF compress
                       THEN intelligentCompression(locals.formattedContext, options.maxTokens.value)
                       ELSE locals.formattedContext)

\* steps 9 and 10 and the return statement
completeResponse(options, locals) ==
  compressWhen(options, locals,
               needsCompression(options, estimateTokenCount(locals.formattedContext)))

\* the local variables of a call that has not reached them
NoLocals ==
  [batch |-> 0, normalizedPath |-> <<>>, folderTree |-> <<>>, relevantFiles |-> <<>>,
   dependencyGraph |-> NoGraph, usagePatterns |-> NoPatterns, formattedContext |-> <<>>]

NoOptions ==
  [query |-> <<>>, projectRoot |-> NoRoot, scope |-> "undefined",
   completeness |-> "undefined", maxTokens |-> NoMaxTokens]

BuilderIdle ==
  /\ bcOptions = NoOptions
  /\ bcPc = "idle"
  /\ bcLocals = NoLocals
  /\ bcFailure = NoFailure
  /\ bcResponse = NoResponse

\* the call ends with the outcome of the catch block
buildEnds(outcome, message) ==
  /\ bcPc' = outcome.pc
  /\ bcResponse' = outcome.response
  /\ bcFailure' = failureOf(message)

\* the call ends in the catch block
buildFails(message) == buildEnds(onBuildError(bcOptions, message, fsFiles), message)

\* the answer to a root that is not valid
invalidRootResponse(validation, folderTreeForError) ==
  errorResponse(bcOptions.query, validation.message, ClosingInvalid,
                folderTreeForError.text)

\* the project indexed before the validity of its root is looked at
onValidationIndexFirst(validation) ==
  IF validation.threw
    THEN /\ buildFails(validation.message)
         /\ UNCHANGED <<analyzerVars, bcLocals>>
    ELSE /\ IndexProject(validation.normalizedPath)
         /\ bcPc' = "indexing"
         /\ bcLocals' = [bcLocals EXCEPT !.batch = Len(batches) + 1,
                                         !.normalizedPath = validation.normalizedPath]
         /\ UNCHANGED <<bcFailure, bcResponse>>

\* what follows validateProjectRoot
onValidation(validation) ==
  IF validation.threw
    THEN /\ buildFails(validation.message)
         /\ UNCHANGED <<analyzerVars, bcLocals>>
  ELSE IF ~validation.valid
    THEN /\ bcPc' = "returned"
         /\ bcResponse' =
              invalidRootResponse(validation,
                generateFolderTree(rootOf(validation.normalizedPath), fsFiles))
         /\ UNCHANGED <<analyzerVars, bcLocals, bcFailure>>
  ELSE /\ IndexProject(validation.normalizedPath)
       /\ bcPc' = "indexing"
       /\ bcLocals' = [bcLocals EXCEPT !.batch = Len(batches) + 1,
                                       !.normalizedPath = validation.normalizedPath]
       /\ UNCHANGED <<bcFailure, bcResponse>>

\* buildCompleteContext up to its await of indexProject: the root is
\* validated, an invalid one answered with the error response
BuildCompleteContext ==
  /\ bcPc = "called"
  /\ onValidation(validateProjectRoot(bcOptions.projectRoot, fsFiles))
  /\ UNCHANGED <<fsVars, rankVars, watcherVars, callVars, bcOptions>>

\* the message of the error indexProject rethrows
indexErrorMessage(batch) ==
  IF batch.rejectedBy = "fastGlob"
    THEN accessDenied(CHOOSE d \in UnreadableDirs : d = batch.root \/ isUnder(d, batch.root))
    ELSE <<"E","N","O","E","N","T",":"," ","n","o"," ","s","u","c","h"," ","f","i","l","e"," ","o","r"," ","d","i","r","e","c","t","o","r","y">>

\* the await of indexProject settles
IndexSettles ==
  /\ bcPc = "indexing"
  /\ batches[bcLocals.batch].pc \in {"done", "failed"}
  /\ IF batches[bcLocals.batch].pc = "failed"
       THEN buildFails(indexErrorMessage(batches[bcLocals.batch]))
       ELSE /\ bcPc' = "indexed"
            /\ UNCHANGED <<bcFailure, bcResponse>>
  /\ UNCHANGED <<fsVars, analyzerVars, rankVars, watcherVars, callVars, bcOptions, bcLocals>>

\* steps 4 to 8 on the files the ranking kept
formatRanked(relevantFiles, dependencyGraph, usagePatterns) ==
  /\ bcLocals' =
       [bcLocals EXCEPT
          !.relevantFiles = relevantFiles,
          !.folderTree = generateFolderTree(rootOf(bcLocals.normalizedPath), fsFiles).text,
          !.dependencyGraph = dependencyGraph,
          !.usagePatterns = usagePatterns,
          !.formattedContext = formatContextForFiles(relevantFiles, dependencyGraph,
                                                     usagePatterns, bcOptions.query)]
  /\ bcPc' = "formatted"
  /\ UNCHANGED <<bcFailure, bcResponse>>

\* what follows findRelevantFiles
onRanked(relevant) ==
  IF ~relevant.ok
    THEN /\ buildFails(relevant.message)
         /\ UNCHANGED bcLocals
    ELSE formatRanked(relevant.files, buildDependencyGraph(relevant.files),
                      analyzeUsagePatterns(cache, relevant.files))

\* steps 2 to 8: getIndexStats, getAllFiles, findRelevantFiles,
\* generateFolderTree, buildDependencyGraph, analyzeUsagePatterns and
\* formatContextForFiles; the awaits among them settle without I/O
FormatContext ==
  /\ bcPc = "indexed"
  /\ onRanked(findRelevantFiles(cache, bcOptions.query, bcOptions.scope))
  /\ UNCHANGED <<fsVars, analyzerVars, rankVars, watcherVars, callVars, bcOptions>>

\* what follows the reduce of step 9
onPrimaryLanguage(primary) ==
  IF primary.threw
    THEN buildFails(primary.message)
    ELSE /\ bcPc' = "returned"
         /\ bcResponse' = completeResponse(bcOptions, bcLocals)
         /\ UNCHANGED bcFailure

\* steps 9 and 10: the metadata, the compression when the document exceeds
\* maxTokens, and the response
CompleteContext ==
  /\ bcPc = "formatted"
  /\ onPrimaryLanguage(primaryLanguageOf(bcLocals.relevantFiles))
  /\ UNCHANGED <<fsVars, analyzerVars, rankVars, watcherVars, callVars, bcOptions, bcLocals>>

(***************************************************************************)
(* Specifications                                                          *)
(***************************************************************************)

NoResult == [ok |-> TRUE, files |-> <<>>, message |-> <<>>]

NoCall == [method |-> "none"]

NoCallResult == [text |-> <<>>]

CallIdle ==
  /\ call = NoCall
  /\ callPc = "idle"
  /\ callResult = NoCallResult

RankIdle ==
  /\ rkFiles = <<>>
  /\ rkQuery = <<>>
  /\ rkScope = "undefined"
  /\ rkResult = NoResult
  /\ rkPc = "idle"

\* one call of findRelevantFiles(allFiles, query, scope)
RankFiles ==
  /\ rkPc = "called"
  /\ rkResult' = findRelevantFiles(rkFiles, rkQuery, rkScope)
  /\ rkPc' = IF rkResult'.ok THEN "returned" ELSE "threw"
  /\ UNCHANGED <<rkFiles, rkQuery, rkScope>>

RankInit ==
  /\ FsInit
  /\ AnalyzerInit
  /\ WatcherIdle
  /\ BuilderIdle
  /\ CallIdle
  /\ rkPc = "called"
  /\ rkResult = NoResult
  /\ rkQuery \in SampleQueries
  /\ rkScope \in SampleScopes
  /\ \E pattern \in SamplePatterns, n \in SampleLengths :
       rkFiles = sampleList(pattern, n)

RankNext == RankFiles /\ UNCHANGED <<fsVars, analyzerVars, builderVars, callVars, watcherVars>>

\* findRelevantFiles called on file lists as getAllFiles delivers them
SpecRank == RankInit /\ [][RankNext]_vars

\* the roots indexProject is called with
IndexRoots == {RootP, RootQ, RootK}

\* the lists of changed files reindexFiles is called with
ChangedLists == {<<FileIndex>>, <<FileUtil>>, <<FileC>>, <<FileIndex, FileUtil>>}

AnalyzerStarts ==
  FsInit /\ AnalyzerInit /\ WatcherIdle /\ RankIdle /\ BuilderIdle /\ CallIdle

AnalyzerCalls ==
  /\ \/ \E root \in IndexRoots : IndexProject(root)
     \/ \E changedFiles \in ChangedLists : ReindexFiles(changedFiles)
  /\ UNCHANGED <<fsVars, rankVars, watcherVars, callVars, builderVars>>

AnalyzerSteps ==
  /\ \/ \E b \in 1..Len(batches) : GlobResolves(b)
     \/ \E t \in 1..Len(tasks) : AnalyzeStat(t)
     \/ \E t \in 1..Len(tasks) : ReadFile(t)
     \/ \E t \in 1..Len(tasks) : AnalyzeRead(t)
     \/ \E b \in 1..Len(batches) : BatchSettles(b)
  /\ UNCHANGED <<fsVars, rankVars, watcherVars, callVars, builderVars>>

FsChanges ==
  /\ \E path \in Range(WatchedFiles) : FsWrite(path) \/ FsDelete(path)
  /\ UNCHANGED <<analyzerVars, rankVars, watcherVars, callVars, builderVars>>

AnalyzerNext == AnalyzerCalls \/ AnalyzerSteps \/ FsChanges

\* one ProjectAnalyzer under indexProject and reindexFiles calls while the
\* files change
SpecAnalyzer == AnalyzerStarts /\ [][AnalyzerNext]_vars

\* the requests buildCompleteContext is called with
BuilderRoots ==
  {rootOf(RootP), rootOf(RootQ), rootOf(RootK), rootOf(DirEmpty), rootOf(DirLocked),
   rootOf(DirMissing), rootOf(FileIndex), rootOf(<<"p">>), rootOf(<<"f","i","l","e",":","/","/","/","p">>),
   rootOf(<<"%","2","F","q">>), rootOf(<<"%","2","F","x">>), NoRoot}

BuilderQueries == {<<"m","a","i","n"," ","u","t","i","l">>, <<"a"," ","i","s"," ","o","n">>, <<"m","a","i","n","("," ","u","t","i","l">>}

BuilderScopes == {"undefined", "function", "class"}

\* a maxTokens below the size of every document
SmallMaxTokens == 50

\* the maxTokens the server passes when the request names none
DefaultMaxTokens == 180000

\* the completeness and maxTokens options of the requests
BuilderLimits ==
  {<<"undefined", NoMaxTokens>>, <<"full", maxTokensOf(DefaultMaxTokens)>>,
   <<"partial", maxTokensOf(DefaultMaxTokens)>>,
   <<"exhaustive", maxTokensOf(DefaultMaxTokens)>>,
   <<"full", maxTokensOf(SmallMaxTokens)>>, <<"partial", maxTokensOf(SmallMaxTokens)>>,
   <<"full", maxTokensOf(0)>>}

\* the files when the request arrives: all of them readable, or index.ts
\* deleted and the other two unreadable
FsConfigs ==
  {[path \in Range(WatchedFiles) |-> [st |-> "file", ver |-> 1]],
   [path \in Range(WatchedFiles) |->
      [st |-> IF path = FileIndex THEN "missing" ELSE "locked", ver |-> 1]]}

BuilderInit ==
  /\ fsFiles \in FsConfigs
  /\ fsChanges = 0
  /\ AnalyzerInit
  /\ WatcherIdle
  /\ RankIdle
  /\ CallIdle
  /\ \E root \in BuilderRoots, query \in BuilderQueries, scope \in BuilderScopes,
        limits \in BuilderLimits :
       bcOptions = [query |-> query, projectRoot |-> root, scope |-> scope,
                    completeness |-> limits[1], maxTokens |-> limits[2]]
  /\ bcPc = "called"
  /\ bcLocals = NoLocals
  /\ bcFailure = NoFailure
  /\ bcResponse = NoResponse

BuilderAnalyzerSteps ==
  /\ \/ \E b \in 1..Len(batches) : GlobResolves(b)
     \/ \E t \in 1..Len(tasks) : AnalyzeStat(t)
     \/ \E t \in 1..Len(tasks) : ReadFile(t)
     \/ \E t \in 1..Len(tasks) : AnalyzeRead(t)
     \/ \E b \in 1..Len(batches) : BatchSettles(b)
  /\ UNCHANGED <<fsVars, rankVars, watcherVars, callVars, builderVars>>

BuilderNext ==
  \/ BuildCompleteContext
  \/ BuilderAnalyzerSteps
  \/ IndexSettles
  \/ FormatContext
  \/ CompleteContext

\* one buildCompleteContext call on a fresh ContextBuilder
SpecBuilder == BuilderInit /\ [][BuilderNext]_vars

\* the longest code block of the documents the compressors are called on
MaxCodeLines == 3

\* the lines of those code blocks
CodeLines == {<<"c","o","n","s","t"," ","a"," ","="," ","1">>, <<"a","(",")">>, <<" "," ","/","/"," ","T","O","D","O">>, <<"}">>}

CodeBlocks == UNION {[1..n -> CodeLines] : n \in 0..MaxCodeLines}

\* a document of the formatter with one file, whose code block is code
documentOf(code) ==
  <<"#"," ","C","o","n","t","e","x","t","\n","\n","*","*","Q","u","e","r","y",":","*","*"," ","a","\n","\n","n","o","t","e","\n","\n","#","#"," ","C","o","m","p","l","e","t","e"," ","F","i","l","e"," ","C","o","n","t","e","n","t","s","\n","#","#","#"," ","a",".","t","s","\n","\n",Backquote,Backquote,Backquote,"t","y","p","e","s","c","r","i","p","t","\n">>
    \o joinLines(code) \o <<"\n",Backquote,Backquote,Backquote,"\n","\n","#","#"," ","S","u","m","m","a","r","y","\n","*","*","I","n","s","i","g","h","t","s",":","*","*","\n","-"," ","a"," ","(","1"," ","c","a","l","l","s",")","\n","e","n","d","\n">>

\* a code block alone
fencedOf(code) == <<Backquote,Backquote,Backquote,"j","s","\n">> \o joinLines(code) \o <<"\n",Backquote,Backquote,Backquote>>

CompressionSamples ==
  {documentOf(code) : code \in CodeBlocks} \cup {fencedOf(code) : code \in CodeBlocks}
    \cup {joinLines(code) : code \in CodeBlocks}

\* the maxTokens of the calls
CompressionLimits == {2, 8, 32, 36, 40}

\* intelligentCompression is called with a context estimated above
\* maxTokens, aggressiveCompression with any text, the outputs of the first
\* tier among them
CompressionInit ==
  /\ FsInit
  /\ AnalyzerInit
  /\ WatcherIdle
  /\ RankIdle
  /\ BuilderIdle
  /\ callPc = "called"
  /\ callResult = NoCallResult
  /\ \E context \in CompressionSamples, maxTokens \in CompressionLimits :
       \/ /\ estimateTokenCount(context) > maxTokens
          /\ call = [method |-> "intelligentCompression", context |-> context,
                     maxTokens |-> maxTokens]
       \/ \E text \in {context, moderateCompression(context)} :
            call = [method |-> "aggressiveCompression", context |-> text,
                    maxTokens |-> maxTokens]

IntelligentCompression ==
  /\ callPc = "called"
  /\ call.method = "intelligentCompression"
  /\ callResult' = [text |-> intelligentCompression(call.context, call.maxTokens)]
  /\ callPc' = "returned"
  /\ UNCHANGED call

AggressiveCompression ==
  /\ callPc = "called"
  /\ call.method = "aggressiveCompression"
  /\ callResult' = [text |-> aggressiveCompression(call.context, call.maxTokens)]
  /\ callPc' = "returned"
  /\ UNCHANGED call

CompressionNext ==
  /\ IntelligentCompression \/ AggressiveCompression
  /\ UNCHANGED <<fsVars, analyzerVars, rankVars, watcherVars, builderVars>>

\* the two compressors called on documents and on other texts
SpecCompression == CompressionInit /\ [][CompressionNext]_vars

\* the parts a document handed to the validator is made of
PartHeaders == <<"#"," ","P","r","o","j","e","c","t"," ","C","o","n","t","e","x","t","\n","#","#"," ","P","a","r","t","s","\n","#","#"," ","N","o","t","e","s","\n","#","#"," ","M","o","r","e","\n">>

PartSubHeaders == <<"#","#","#"," ","i","n","d","e","x",".","t","s","\n","#","#","#"," ","u","t","i","l",".","j","s","\n","#","#","#"," ","a",".","t","s","\n","#","#","#"," ","b",".","t","s","\n">>

PartClaimed == <<"D","e","p","e","n","d","e","n","c","i","e","s",":"," ","f","s","\n","U","s","a","g","e"," ","P","a","t","t","e","r","n",":"," ","m","a","i","n"," ","i","s"," ","c","a","l","l","e","d","\n","S","u","m","m","a","r","y","\n","I","n","s","i","g","h","t","s","\n">>

PartGraph == <<"D","e","p","e","n","d","e","n","c","y"," ","G","r","a","p","h","\n","F","i","l","e"," ","C","o","n","t","e","n","t","s","\n">>

PartImport == <<"i","m","p","o","r","t"," ","f","s"," ","f","r","o","m"," ","'","f","s","'","\n">>

PartExamples == <<"E","x","a","m","p","l","e",":"," ","t","h","e"," ","t","e","s","t"," ","o","f"," ","m","a","i","n",","," ","s","e","e"," ","t","h","e"," ","d","o","c","\n","e","x","p","o","r","t"," ","t","y","p","e"," ","T","\n">>

PartCapitals == <<"S","p","e","c"," ","a","n","d"," ","R","e","a","d","m","e","\n">>

PartPlain == <<"n","o","t","h","i","n","g"," ","o","f"," ","i","n","t","e","r","e","s","t","\n">>

CodeFence == <<Backquote,Backquote,Backquote,"t","s","\n","c","o","n","s","t"," ","a"," ","="," ","1","\n",Backquote,Backquote,Backquote,"\n">>

\* n code blocks one after another
RECURSIVE codeFences(_)
codeFences(n) == IF n = 0 THEN <<>> ELSE CodeFence \o codeFences(n - 1)

\* a line of n characters
padding(n) == seq([i \in 1..n |-> "x"])

\* the texts the documents begin with
DocumentBodies ==
  {<<>>,
   PartPlain,
   PartHeaders \o PartClaimed,
   PartSubHeaders \o PartClaimed,
   PartHeaders \o PartClaimed \o PartGraph,
   PartHeaders \o PartClaimed \o PartGraph \o PartCapitals,
   PartHeaders \o PartClaimed \o PartGraph \o PartImport,
   PartSubHeaders \o PartClaimed \o PartGraph \o PartImport,
   PartHeaders \o PartClaimed \o PartGraph \o PartImport \o PartExamples}

\* the numbers of code blocks of the documents
DocumentFences == {0, 2, 3, 5, 6}

\* the lengths of the padding that ends a document: none, and what makes a
\* document of 1000 characters or more
DocumentPaddings == {0, 1000}

\* the padding that makes a document longer than 10000 characters
LongPadding == 10001

\* the documents: every body with every number of code blocks and padding,
\* and some of them with the long padding
DocumentShapes ==
  (DocumentBodies \X DocumentFences \X DocumentPaddings)
    \cup ({PartPlain, PartHeaders \o PartClaimed \o PartGraph \o PartImport}
          \X {5} \X {LongPadding})

ValidatorQueries ==
  {<<"u","s","a","g","e"," ","p","a","t","t","e","r","n"," ","s","u","m","m","a","r","y">>, <<"s","p","e","c"," ","r","e","a","d","m","e">>, <<"i","s"," ","i","t">>, <<"f","u","n","c","t","i","o","n"," ","M","i","s","s","i","n","g",".","t","h","i","n","g"," ","u","s","a","g","e">>,
   <<"I","n","s","i","g","h","t","s"," ","t","e","s","t"," ","d","o","c","u","m","e","n","t">>, <<>>}

ValidatorInit ==
  /\ FsInit
  /\ AnalyzerInit
  /\ WatcherIdle
  /\ RankIdle
  /\ BuilderIdle
  /\ callPc = "called"
  /\ callResult = NoCallResult
  /\ \E shape \in DocumentShapes, query \in ValidatorQueries :
       call = [method |-> "validateCompleteness",
               context |-> shape[1] \o codeFences(shape[2]) \o padding(shape[3]),
               query |-> query]

ValidateCompleteness ==
  /\ callPc = "called"
  /\ call.method = "validateCompleteness"
  /\ callResult' \in validateCompleteness(call.context, call.query)
  /\ callPc' = "returned"
  /\ UNCHANGED call

ValidatorNext ==
  ValidateCompleteness /\ UNCHANGED <<fsVars, analyzerVars, rankVars, watcherVars, builderVars>>

\* validateCompleteness called on documents and queries
SpecValidator == ValidatorInit /\ [][ValidatorNext]_vars

\* the files argument of formatContextForFiles: absent, or a list
NoFiles == [defined |-> FALSE, value |-> <<>>]

filesOf(list) == [defined |-> TRUE, value |-> list]

\* the lists formatContextForFiles is called with
FormatLists == {sampleList(pattern, n) : pattern \in SamplePatterns, n \in 0..2}

\* the graph and usage facts passed with them: absent, or those of a list
FormatFacts ==
  {[dependencyGraph |-> NoGraph, usagePatterns |-> NoPatterns]}
    \cup {[dependencyGraph |-> buildDependencyGraph(list),
           usagePatterns |-> analyzeUsagePatterns(list, list)] :
            list \in {sampleList(<<1, 2>>, n) : n \in 0..2}}

FormatQueries == {<<>>, <<"f","o","o">>, <<"t","h","e"," ","B","a","r"," ","c","l","a","s","s">>}

FormatInit ==
  /\ FsInit
  /\ AnalyzerInit
  /\ WatcherIdle
  /\ RankIdle
  /\ BuilderIdle
  /\ callPc = "called"
  /\ callResult = NoCallResult
  /\ \E files \in {NoFiles} \cup {filesOf(list) : list \in FormatLists},
        facts \in FormatFacts, query \in FormatQueries :
       call = [method |-> "formatContextForFiles", files |-> files,
               dependencyGraph |-> facts.dependencyGraph,
               usagePatterns |-> facts.usagePatterns, query |-> query]

\* formatContextForFiles(files, dependencyGraph, usagePatterns, query); files
\* that are absent take the branch of the empty list (!files)
FormatContextForFiles ==
  /\ callPc = "called"
  /\ call.method = "formatContextForFiles"
  /\ callResult' = [text |-> formatContextForFiles(call.files.value, call.dependencyGraph,
                                                    call.usagePatterns, call.query)]
  /\ callPc' = "returned"
  /\ UNCHANGED call

FormatNext ==
  FormatContextForFiles /\ UNCHANGED <<fsVars, analyzerVars, rankVars, watcherVars, builderVars>>

\* formatContextForFiles called on file lists with and without facts
SpecFormat == FormatInit /\ [][FormatNext]_vars

\* the roots watch is called with
WatchRoots == {RootP, RootQ}

WatcherInit == FsInit /\ AnalyzerInit /\ WatcherIdle /\ RankIdle /\ BuilderIdle /\ CallIdle

WatcherCalls ==
  \/ \E root \in WatchRoots : Watch(root)
  \/ \E c \in 1..Len(watchCalls) : WatchResumes(c)
  \/ StopWatching
  \/ \E c \in 1..Len(watchCalls) : StopResumes(c)

WatcherEvents ==
  \E k \in 1..Len(watchers), filePath \in ChangedFiles :
    \/ OnAdd(k, filePath)
    \/ OnChange(k, filePath)
    \/ OnUnlink(k, filePath)

WatcherTimers == \E k \in 1..Len(watchers) : \E t \in 1..Len(watchers[k].timers) : TimerFires(k, t)

WatcherNext ==
  /\ \/ WatcherCalls
     \/ WatcherEvents
     \/ WatcherTimers
     \/ TimePasses
  /\ UNCHANGED <<fsVars, analyzerVars, rankVars, builderVars, callVars>>

\* one FileWatcher under watch and stopWatching calls while files change
SpecWatcher == WatcherInit /\ [][WatcherNext]_vars

\* the same, where time passes and a timer that is due fires
SpecWatcherFair ==
  /\ SpecWatcher
  /\ WF_vars(TimePasses /\ UNCHANGED <<fsVars, analyzerVars, rankVars, builderVars, callVars>>)
  /\ WF_vars(WatcherTimers /\ UNCHANGED <<fsVars, analyzerVars, rankVars, builderVars, callVars>>)

\* the sources of the files buildDependencyGraph is called on: modules that
\* import each other by paths from the root, by "./" paths and by name
GraphSources ==
  <<[path |-> <<"/","p","/","s","r","c","/","f","o","o",".","t","s">>, content |-> <<"i","m","p","o","r","t"," ","{"," ","B","a","r"," ","}"," ","f","r","o","m"," ","'","l","i","b","/","B","a","r","'","\n","i","m","p","o","r","t"," ","f","s"," ","f","r","o","m"," ","'","f","s","'">>],
    [path |-> <<"/","p","/","l","i","b","/","B","a","r",".","t","s">>, content |-> <<"i","m","p","o","r","t"," ","f","o","o"," ","f","r","o","m"," ","'","s","r","c","/","f","o","o","'","\n","i","m","p","o","r","t"," ","{"," ","f"," ","}"," ","f","r","o","m"," ","'","s","r","c","/","f","o","o","'">>],
    [path |-> <<"/","p","/","s","r","c","/","f","o","o",".","t","e","s","t",".","t","s">>, content |-> <<"i","m","p","o","r","t"," ","f","o","o"," ","f","r","o","m"," ","'",".","/","f","o","o","'","\n","i","m","p","o","r","t"," ","s","e","l","f"," ","f","r","o","m"," ","'","f","o","o",".","t","e","s","t","'">>],
    [path |-> <<"/","p","/","i","n","d","e","x",".","j","s">>, content |-> <<"c","o","n","s","t"," ","b"," ","="," ","r","e","q","u","i","r","e","(","'","B","a","r","'",")">>],
    [path |-> <<"/","p","/","l","i","b","/","B","a","r",".","j","s">>, content |-> <<"f","u","n","c","t","i","o","n"," ","b","a","r","(",")"," ","{","}">>]>>

\* their records as analyzeFile makes them under /p
GraphFiles ==
  seq([k \in 1..Len(GraphSources) |->
         buildFileInfo(GraphSources[k].path, RootP, GraphSources[k].content,
                       Len(GraphSources[k].content), 1)])

\* the longest list buildDependencyGraph is called on
MaxGraphFiles == 3

\* the lists of distinct files, in every order
GraphLists ==
  {list \in UNION {[1..n -> Range(GraphFiles)] : n \in 0..MaxGraphFiles} :
     \A i, j \in 1..Len(list) : list[i] = list[j] => i = j}

GraphInit ==
  /\ FsInit
  /\ AnalyzerInit
  /\ WatcherIdle
  /\ RankIdle
  /\ BuilderIdle
  /\ callPc = "called"
  /\ callResult = NoCallResult
  /\ \E list \in GraphLists : call = [method |-> "buildDependencyGraph", files |-> list]

\* buildDependencyGraph(files)
BuildDependencyGraph ==
  /\ callPc = "called"
  /\ call.method = "buildDependencyGraph"
  /\ callResult' = buildDependencyGraph(call.files)
  /\ callPc' = "returned"
  /\ UNCHANGED call

GraphNext ==
  BuildDependencyGraph /\ UNCHANGED <<fsVars, analyzerVars, rankVars, watcherVars, builderVars>>

\* buildDependencyGraph called on lists of files that import each other
SpecGraph == GraphInit /\ [][GraphNext]_vars

\* number of files of the cached import chain; the chain is longer than the
\* depth collectDependencies follows
MaxChainFiles == 8

\* the module names of the chain
ChainLetters == <<"a", "b", "c", "d", "e", "f", "g", "h", "i", "j">>

chainName(k) == <<ChainLetters[((k - 1) % MaxChainFiles) + 1]>>

\* the chain's files: typescript and javascript by turns
chainPath(k) == RootP \o <<"/">> \o chainName(k) \o (IF k % 2 = 0 THEN <<".","j","s">> ELSE <<".","t","s">>)

\* a source text that imports the modules named, one import a line
importing(names) ==
  join(seq([k \in 1..Len(names) |-> <<"i","m","p","o","r","t"," ","x"," ","f","r","o","m"," ","'">> \o names[k] \o <<"'">>]), <<"\n">>)

\* how many files at the head of the chain vary in what they import
VaryingFiles == 3

\* what a file at the head of the chain may import: the next file, nothing,
\* itself and the next, the next twice, an unresolved path and the next but one
importChoices(k) ==
  {<<chainName(k + 1)>>, <<>>, <<chainName(k), chainName(k + 1)>>,
   <<chainName(k + 1), chainName(k + 1)>>,
   <<<<".","/">> \o chainName(k + 1), chainName(k + 2)>>}

\* the other files import the next one, the last one the first: a cycle
chainImports(k) == <<chainName(k + 1)>>

\* a test file that imports the first file of the chain
TestFile == RootP \o <<"/","t","e","s","t","/","t",".","t","s">>

recordOf(filePath, names) ==
  buildFileInfo(filePath, RootP, importing(names), Len(importing(names)), 1)

\* the cache contents buildDependencyGraph is called on
ChainCaches ==
  {seq([k \in 1..MaxChainFiles |->
          recordOf(chainPath(k), IF k <= VaryingFiles THEN choice[k] ELSE chainImports(k))])
     \o <<recordOf(TestFile, <<chainName(1)>>)>> :
   choice \in {c \in [1..VaryingFiles -> UNION {importChoices(k) : k \in 1..VaryingFiles}] :
                 \A k \in 1..VaryingFiles : c[k] \in importChoices(k)}}

\* the targets of the calls: module names, a path, a name no file has, the
\* empty string and a folder
ChainTargets == {<<"a">>, <<"c">>, <<"/","p","/","a",".","t","s">>, <<"z","z">>, <<>>, <<"t","e","s","t">>}

DependenciesInit ==
  /\ FsInit
  /\ projectRoot = RootP
  /\ cache \in ChainCaches
  /\ batches = <<>>
  /\ tasks = <<>>
  /\ WatcherIdle
  /\ RankIdle
  /\ BuilderIdle
  /\ callPc = "called"
  /\ callResult = NoCallResult
  /\ \E target \in ChainTargets, includeTests \in BOOLEAN :
       call = [method |-> "analyzer.buildDependencyGraph", target |-> target,
               includeTests |-> includeTests]

\* analyzer.buildDependencyGraph(target, projectRoot, includeTests)
GetDependencyGraph ==
  /\ callPc = "called"
  /\ call.method = "analyzer.buildDependencyGraph"
  /\ callResult' = analyzerDependencyGraph(cache, call.target, call.includeTests)
  /\ callPc' = "returned"
  /\ UNCHANGED call

DependenciesNext ==
  GetDependencyGraph /\ UNCHANGED <<fsVars, analyzerVars, rankVars, watcherVars, builderVars>>

\* ProjectAnalyzer.buildDependencyGraph called on caches whose files import
\* each other in chains and cycles
SpecDependencies == DependenciesInit /\ [][DependenciesNext]_vars

(***************************************************************************)
(* Properties of the ranking                                               *)
(***************************************************************************)

rkKeywords == keywordsOf(rkQuery)

rkReturned == rkPc = "returned"

\* positions of the input files that satisfy the relevance predicate
rkRelevantAt == {j \in 1..Len(rkFiles) : isRelevant(rkFiles[j], rkKeywords)}

\* positions of the typescript and javascript files
rkPrimaryAt == {j \in 1..Len(rkFiles) : rkFiles[j].language \in {"typescript", "javascript"}}

\* positions of the primary-language files whose path holds "index" or "main"
\* or that have a function or a class
rkMainAt ==
  {j \in rkPrimaryAt :
     \/ includes(toLowerCase(rkFiles[j].relativePath), <<"i","n","d","e","x">>)
     \/ includes(toLowerCase(rkFiles[j].relativePath), <<"m","a","i","n">>)
     \/ rkFiles[j].functions # <<>>
     \/ rkFiles[j].classes # <<>>}

\* the first 10 of them, in input order
rkFirstMainAt == {j \in rkMainAt : Cardinality({i \in rkMainAt : i <= j}) <= 10}

\* positions of the input at which the files of the result stand
rkReturnedAt ==
  LET paths == {rkResult.files[i].path : i \in 1..Len(rkResult.files)}
  IN  {j \in 1..Len(rkFiles) : rkFiles[j].path \in paths}

rkSatisfiesScope(file) ==
  /\ rkScope = "function" => file.functions # <<>>
  /\ rkScope = "class" => file.classes # <<>>

rkScore(file) == calculateRelevanceScore(file, rkKeywords)

\* C4: the list returned by findRelevantFiles has at most 20 entries, every
\* entry is one of the input files, and no input file is entered twice.
C4_RankingCapped ==
  rkReturned =>
    LET r == rkResult.files
    IN  /\ Len(r) <= 20
        /\ \A i \in 1..Len(r) : \E j \in 1..Len(rkFiles) : r[i] = rkFiles[j]
        /\ \A i, j \in 1..Len(r) : i # j => r[i].path # r[j].path

\* more than 20 files were candidates and 20 came back
C4_Witness ==
  /\ rkReturned
  /\ Cardinality(rkRelevantAt) > 20
  /\ rkScope = "undefined"
  /\ Len(rkResult.files) = 20

\* C5: when no input file satisfies the relevance predicate every returned
\* file is a typescript or javascript file among the first 10, in input order,
\* of the files with "index" or "main" in the path or with a function or a
\* class; when some file satisfies it only files satisfying it are returned.
C5_FallbackSet ==
  rkReturned =>
    LET relevantAt == rkRelevantAt
    IN  /\ relevantAt = {} =>
             /\ rkReturnedAt \subseteq rkFirstMainAt
             /\ \A i \in 1..Len(rkResult.files) :
                  rkResult.files[i].language \in {"typescript", "javascript"}
        /\ relevantAt # {} => rkReturnedAt \subseteq relevantAt

\* the fallback delivered its 10 files out of more than 10 eligible ones
C5_Witness ==
  /\ rkReturned
  /\ rkKeywords # <<>>
  /\ rkRelevantAt = {}
  /\ Cardinality(rkMainAt) > 10
  /\ Len(rkResult.files) = 10

\* C6 as stated: with zero keywords every typescript or javascript file
\* satisfies the relevance predicate and, with no scope, all of them are
\* returned up to the cap of 20.
C6_AllPrimaryReturned ==
  (rkReturned /\ rkKeywords = <<>> /\ rkScope = "undefined") =>
    /\ rkRelevantAt = rkPrimaryAt
    /\ Len(rkResult.files) = min(Cardinality(rkPrimaryAt), 20)

\* C6 amended: with zero keywords no file satisfies the relevance predicate,
\* the fallback is taken, and the result is the first 10 eligible files that
\* pass the scope filter, in input order, each scored 0.
C6_ZeroKeywordsFallback ==
  (rkReturned /\ rkKeywords = <<>>) =>
    /\ rkRelevantAt = {}
    /\ rkReturnedAt = {j \in rkFirstMainAt : rkSatisfiesScope(rkFiles[j])}
    /\ \A i \in 1..Len(rkResult.files) : rkScore(rkResult.files[i]) = 0
    /\ \A i, j \in 1..Len(rkResult.files) :
         i < j => \E a, b \in 1..Len(rkFiles) :
                    a < b /\ rkFiles[a] = rkResult.files[i] /\ rkFiles[b] = rkResult.files[j]

\* a zero-keyword query left a typescript file out although fewer than 10
\* files came back
C6_Witness ==
  /\ rkReturned
  /\ rkKeywords = <<>>
  /\ rkQuery # <<>>
  /\ rkScope = "undefined"
  /\ rkResult.files # <<>>
  /\ Len(rkResult.files) < 10
  /\ rkPrimaryAt \ rkReturnedAt # {}

\* C7: with scope "function" every returned file has a function, with scope
\* "class" every returned file has a class, with any other scope the result
\* is the one of a call without scope; the filter acts on the selection, so
\* in the fallback case the result is what the filter leaves of the first 10
\* eligible files.
C7_ScopeAfterSelection ==
  rkReturned =>
    /\ \A i \in 1..Len(rkResult.files) : rkSatisfiesScope(rkResult.files[i])
    /\ rkScope \notin {"function", "class"} =>
         rkResult = findRelevantFiles(rkFiles, rkQuery, "undefined")
    /\ rkRelevantAt = {} =>
         rkReturnedAt = {j \in rkFirstMainAt : rkSatisfiesScope(rkFiles[j])}

\* the fallback held files of both kinds, more than 10 were eligible, and the
\* function scope removed some of the first 10
C7_Witness ==
  /\ rkReturned
  /\ rkScope = "function"
  /\ rkRelevantAt = {}
  /\ rkResult.files # <<>>
  /\ \E j \in rkFirstMainAt : j \notin rkReturnedAt
  /\ \E j \in rkMainAt \ rkFirstMainAt : rkFiles[j].functions # <<>>

\* C8: the returned list is in non-increasing order of score, and no
\* candidate left out by the cut at 20 scores higher than a returned file.
C8_DescendingScores ==
  rkReturned =>
    LET r == rkResult.files
        relevantAt == rkRelevantAt
        candidatesAt == IF relevantAt = {} THEN rkFirstMainAt ELSE relevantAt
        droppedAt == {j \in candidatesAt : rkSatisfiesScope(rkFiles[j])} \ rkReturnedAt
        score == seq([i \in 1..Len(r) |-> rkScore(r[i])])
        droppedScores == {rkScore(rkFiles[d]) : d \in droppedAt}
    IN  /\ \A i, j \in 1..Len(r) : i < j => score[i] >= score[j]
        /\ \A d \in droppedScores : \A i \in 1..Len(r) : d <= score[i]

\* 20 files of differing scores came back and a candidate was cut off
C8_Witness ==
  /\ rkReturned
  /\ Len(rkResult.files) = 20
  /\ rkScore(rkResult.files[1]) > rkScore(rkResult.files[20])
  /\ rkRelevantAt \ rkReturnedAt # {}
  /\ rkScope = "feature"

\* the characters a regular expression does not take literally
RegExpMetacharacters == {".", "(", ")", "[", "]", "{", "}", "*", "+", "?", "^", "$", "|", "\\"}

\* the keywords of the call hold no such character
rkKeywordsAreLiteral ==
  \A k \in 1..Len(rkKeywords) : Range(rkKeywords[k]) \cap RegExpMetacharacters = {}

\* the files of the result stand in the order they have in the input
rkKeepsInputOrder ==
  \A i, j \in 1..Len(rkResult.files) :
    i < j => \E a, b \in 1..Len(rkFiles) :
               a < b /\ rkFiles[a] = rkResult.files[i] /\ rkFiles[b] = rkResult.files[j]

\* C25: for keywords without regular-expression metacharacters a typescript
\* or javascript file satisfies the relevance predicate if and only if its
\* relevance score is at least 1; so whenever the fallback branch is taken
\* every returned file has score 0 and the result keeps the input order
C25_RelevantIffScored ==
  (rkReturned /\ rkKeywordsAreLiteral) =>
    /\ \A j \in rkPrimaryAt : j \in rkRelevantAt <=> rkScore(rkFiles[j]) >= 1
    /\ rkRelevantAt = {} =>
         /\ \A i \in 1..Len(rkResult.files) : rkScore(rkResult.files[i]) = 0
         /\ rkKeepsInputOrder

\* a query of two keywords that no file matches was answered by the fallback
\* with several files
C25_Witness ==
  /\ rkReturned
  /\ rkKeywordsAreLiteral
  /\ Len(rkKeywords) = 2
  /\ rkRelevantAt = {}
  /\ Len(rkResult.files) >= 2
  /\ \A i \in 1..Len(rkResult.files) : rkScore(rkResult.files[i]) = 0

\* a file was relevant by its content alone, and scored for it
C25_RelevantByContent ==
  /\ rkReturned
  /\ rkKeywordsAreLiteral
  /\ \E j \in rkRelevantAt :
       /\ ~isRelevantByName(rkFiles[j], rkKeywords)
       /\ rkScore(rkFiles[j]) >= 1

\* with the keyword "f.o" the fallback returned a file whose score is not 0
C25_PatternKeyword ==
  /\ rkReturned
  /\ ~rkKeywordsAreLiteral
  /\ rkRelevantAt = {}
  /\ \E i \in 1..Len(rkResult.files) : rkScore(rkResult.files[i]) > 0

(***************************************************************************)
(* Properties of the analyzer cache                                        *)
(***************************************************************************)

\* the record analyzeFile leaves for a path it could not read
isEmptyRecord(info, filePath) ==
  /\ info.path = filePath
  /\ info.content = <<>> /\ info.size = 0 /\ info.language = "other"
  /\ info.imports = <<>> /\ info.exports = <<>> /\ info.functions = <<>>
  /\ info.classes = <<>> /\ info.interfaces = <<>> /\ info.types = <<>>
  /\ info.dependencies = <<>>

\* the awaited stat or readFile of task t fails in the current state
statOrReadFails(t) ==
  \/ tasks[t].pc = "stat" /\ fsFiles[tasks[t].path].st = "missing"
  \/ tasks[t].pc = "readDone" /\ tasks[t].read.st # "file"

\* C9: when stat or readFile fails for a path, analyzeFile does not throw but
\* returns and caches the empty record of that path (size 0, language
\* "other"); an analysis that could read its file caches what it extracted,
\* no batch is rejected by an analysis, and a batch that completes has a
\* cached record for each of its paths.
C9_FailureYieldsEmptyRecord ==
  [][/\ \A t \in 1..Len(tasks) :
          (tasks'[t] # tasks[t]) =>
            /\ tasks'[t].pc # "threw"
            /\ statOrReadFails(t) =>
                 /\ tasks'[t].pc = "returned"
                 /\ isEmptyRecord(tasks'[t].result, tasks[t].path)
            /\ tasks'[t].pc = "returned" =>
                 /\ cacheHas(cache', tasks[t].path)
                 /\ cacheGet(cache', tasks[t].path) = tasks'[t].result
                 /\ ~statOrReadFails(t) =>
                      /\ tasks'[t].result.content =
                           fileContent(tasks[t].path, tasks[t].read.ver)
                      /\ tasks'[t].result.language = detectLanguage(tasks[t].path)
     /\ \A b \in 1..Len(batches) :
          (batches'[b] # batches[b]) =>
            /\ batches'[b].pc = "failed" => batches[b].pc = "glob"
            /\ batches'[b].pc = "done" =>
                 \A k \in 1..Len(batches[b].paths) : cacheHas(cache', batches[b].paths[k])
    ]_vars

\* a batch completed in which one file could not be read and another was
\* extracted, both cached
C9_Witness ==
  \E b \in 1..Len(batches) :
    /\ batches[b].pc = "done"
    /\ \E t, u \in tasksOf(b) :
         /\ tasks[t].failed /\ tasks[t].pc = "returned"
         /\ isEmptyRecord(tasks[t].result, tasks[t].path)
         /\ cacheHas(cache, tasks[t].path)
         /\ ~tasks[u].failed /\ tasks[u].pc = "returned"
         /\ tasks[u].result.functions # <<>>
         /\ cacheHas(cache, tasks[u].path) /\ cacheGet(cache, tasks[u].path) = tasks[u].result

\* C10: every record in the cache has as dependencies the paths of its import
\* records, in the same order.
C10_DependenciesAreImportPaths ==
  \A k \in 1..Len(cache) :
    /\ Len(cache[k].dependencies) = Len(cache[k].imports)
    /\ \A i \in 1..Len(cache[k].imports) :
         cache[k].dependencies[i] = cache[k].imports[i].path

\* the cache holds a record with two different imports and an empty record
C10_Witness ==
  /\ \E k \in 1..Len(cache) :
       /\ Len(cache[k].imports) = 2
       /\ cache[k].imports[1].path # cache[k].imports[2].path
       /\ cache[k].dependencies = <<cache[k].imports[1].path, cache[k].imports[2].path>>
  /\ \E k \in 1..Len(cache) : isEmptyRecord(cache[k], cache[k].path)

\* the absolute paths the cache holds
cachedPaths(c) == {c[k].path : k \in 1..Len(c)}

\* one record per path
hasDistinctPaths(c) == \A j, k \in 1..Len(c) : c[j].path = c[k].path => j = k

\* an analysis of a deleted file returns in this step
deletedFileAnalysed(t) ==
  /\ tasks[t].pc = "stat"
  /\ fsFiles[tasks[t].path].st = "missing"
  /\ tasks'[t].pc = "returned"

\* C19: for any sequence of indexProject, analyzeFile and reindexFiles calls
\* the cache holds at most one record per absolute path and the set of
\* cached paths never shrinks: a record is only ever replaced by a new
\* record for the same path (that of a deleted file by the empty record),
\* and re-indexing or indexing another root removes nothing
C19_OneRecordPerPathNoneRemoved ==
  [][/\ hasDistinctPaths(cache) /\ hasDistinctPaths(cache')
     /\ cachedPaths(cache) \subseteq cachedPaths(cache')
     /\ Len(cache') >= Len(cache)
     /\ \A k \in 1..Len(cache) : cache'[k].path = cache[k].path
     /\ \A t \in 1..Len(tasks) :
          deletedFileAnalysed(t) =>
            isEmptyRecord(cacheGet(cache', tasks[t].path), tasks[t].path)
    ]_vars

\* the file of a cached record was analysed again after another root had
\* been indexed, and its record was replaced by a different one
C19_Witness ==
  /\ Len(cache) >= 2
  /\ \E t, u \in 1..Len(tasks) :
       /\ t < u
       /\ tasks[t].path = tasks[u].path
       /\ tasks[t].pc = "returned" /\ tasks[u].pc = "returned"
       /\ tasks[t].batch # tasks[u].batch
       /\ batches[tasks[u].batch].root # batches[tasks[t].batch].root
       /\ tasks[t].result # tasks[u].result
       /\ cacheGet(cache, tasks[t].path) \in {tasks[t].result, tasks[u].result}

\* the record analyzeFile makes of version ver of a file under one of the
\* roots, all of its fields from that version
recordsOfVersion(filePath, ver) ==
  {[ExtractedFacts[r][positionIn(WatchedFiles, filePath)][ver]
      EXCEPT !.size = statOf(filePath, ver).size,
             !.lastModified = statOf(filePath, ver).mtime] :
     r \in 1..Len(KnownRoots)}

\* the size, the content and the fact lists of a record are those of one
\* version of its file
isOfOneVersion(info) ==
  \/ isEmptyRecord(info, info.path)
  \/ \E ver \in 1..Len(FileVersions(info.path)) :
       \E other \in recordsOfVersion(info.path, ver) :
         [info EXCEPT !.lastModified = 0] = [other EXCEPT !.lastModified = 0]

\* C20: under any interleaving of extractions of a path with changes to its
\* file every record in the cache is internally consistent: its size, its
\* content and all of its fact lists are derived from one and the same
\* version of the file
C20_RecordsAreOfOneVersion == \A k \in 1..Len(cache) : isOfOneVersion(cache[k])

\* the content and the fact lists of every record are those of one version
C20_ContentAndFactsOfOneVersion ==
  \A k \in 1..Len(cache) :
    \/ isEmptyRecord(cache[k], cache[k].path)
    \/ \E ver \in 1..Len(FileVersions(cache[k].path)) :
         \E other \in recordsOfVersion(cache[k].path, ver) :
           [cache[k] EXCEPT !.lastModified = 0, !.size = 0]
             = [other EXCEPT !.lastModified = 0, !.size = 0]

\* the roots indexProject has been called with
indexedRoots ==
  {batches[b].root : b \in {i \in 1..Len(batches) : batches[i].kind = "index"}}

\* the project root under which the file of task t is indexed: the root of
\* its indexProject call, or for a reindexFiles call the root of the earlier
\* indexProject call that found the file
indexingRootsOf(t) ==
  IF batches[tasks[t].batch].kind = "index"
    THEN {batches[tasks[t].batch].root}
    ELSE {batches[b].root :
            b \in {i \in 1..(tasks[t].batch - 1) :
                     /\ batches[i].kind = "index"
                     /\ isUnder(tasks[t].path, batches[i].root)}}

\* the analyses that returned the record
producersOf(info) ==
  {t \in 1..Len(tasks) : tasks[t].pc = "returned" /\ tasks[t].result = info}

\* C27: for any sequence or interleaving of indexProject and reindexFiles
\* calls on one ProjectAnalyzer every cached record's relativePath is its
\* absolute path taken relative to the project root under which that file
\* was indexed
C27_RelativeToIndexingRoot ==
  \A k \in 1..Len(cache) :
    \A t \in producersOf(cache[k]) :
      \A root \in indexingRootsOf(t) :
        cache[k].relativePath = relative(root, cache[k].path)

\* what the code gives: the path relative to whatever this.projectRoot was
\* when the analysis ran, the initial '' or the root of any indexProject call
C27_RelativeToSomeCalledRoot ==
  \A k \in 1..Len(cache) :
    /\ producersOf(cache[k]) # {}
    /\ \E root \in indexedRoots \cup {<<>>} :
         cache[k].relativePath = relative(root, cache[k].path)

\* a record of a file that indexProject found under /p, made relative to
\* the root of an overlapping indexProject call
C27_RelativeToLaterRoot ==
  \E k \in 1..Len(cache) :
    \E t \in producersOf(cache[k]) :
      /\ indexingRootsOf(t) = {RootP}
      /\ cache[k].relativePath = relative(RootQ, cache[k].path)
      /\ cache[k].relativePath = <<".",".","/","p","/","i","n","d","e","x",".","t","s">>

\* the analyses of the path
tasksOfPath(filePath) == {t \in 1..Len(tasks) : tasks[t].path = filePath}

\* every batch has settled, so no analysis is in flight and none will start
allSettled ==
  /\ Len(batches) = MaxBatches
  /\ \A b \in 1..Len(batches) : batches[b].pc \in {"done", "failed"}

\* the file is readable and one of its analyses read it as it is now, after
\* its last change
readAsItIs(filePath) ==
  /\ fsFiles[filePath].st = "file"
  /\ \E t \in tasksOfPath(filePath) : tasks[t].read = fsFiles[filePath]

\* two analyses of the path were in flight together and read different
\* versions of the file
overlapped(filePath) ==
  \E t, u \in tasksOfPath(filePath) :
    /\ tasks[t].batch # tasks[u].batch
    /\ tasks[t].read.st = "file" /\ tasks[u].read.st = "file"
    /\ tasks[t].read.ver < tasks[u].read.ver

\* C29: when extractions of one path overlap and the file then stops
\* changing, then once all in-flight extractions have completed the cached
\* record for that path holds the file's current content: a record computed
\* from an older version never overwrites one computed from a newer version
C29_CacheHoldsCurrentContent ==
  \A filePath \in Range(WatchedFiles) :
    (allSettled /\ readAsItIs(filePath)) =>
      /\ cacheHas(cache, filePath)
      /\ cacheGet(cache, filePath).content =
           fileContent(filePath, fsFiles[filePath].ver)

\* the stale overwrite: every extraction has completed, one of them read the
\* current version, and the cache holds the content of the older version
C29_StaleRecordWins ==
  /\ allSettled
  /\ readAsItIs(FileIndex)
  /\ overlapped(FileIndex)
  /\ fsFiles[FileIndex].ver = 2
  /\ cacheGet(cache, FileIndex).content = fileContent(FileIndex, 1)

\* what the code gives: the cache holds what the analysis that settled last
\* returned, whichever version that analysis read
C29_CacheHoldsLastSettled ==
  [][\A t \in 1..Len(tasks) :
       (tasks[t].pc = "readDone" /\ tasks'[t].pc = "returned") =>
         /\ cacheGet(cache', tasks[t].path) = tasks'[t].result
         /\ tasks[t].read.st = "file" =>
              tasks'[t].result.content = fileContent(tasks[t].path, tasks[t].read.ver)]_vars

(***************************************************************************)
(* Properties of buildCompleteContext                                      *)
(***************************************************************************)

\* the call has returned a response
returned == bcPc = "returned"

\* the response is a failure response
isFailureResponse == returned /\ bcResponse.compressionLevel = "error"

\* C1: buildCompleteContext never rejects, and whenever an exception occurred
\* in it the response it returns has compressionLevel "error", no file in
\* filesIncluded and a document that embeds the message of the exception.
C1_NeverRejects ==
  /\ bcPc # "rejected"
  /\ (returned /\ bcFailure.occurred) =>
       /\ bcResponse.compressionLevel = "error"
       /\ bcResponse.filesIncluded = <<>>
       /\ includes(bcResponse.formattedContext, bcFailure.message)

\* C2 as stated: on every failure response the four counts and the token
\* estimate are all zero.
C2_AllMetadataZero ==
  isFailureResponse =>
    /\ bcResponse.metadata.totalFiles = 0
    /\ bcResponse.metadata.totalLines = 0
    /\ bcResponse.metadata.totalFunctions = 0
    /\ bcResponse.metadata.totalClasses = 0
    /\ bcResponse.metadata.estimatedTokens = 0

\* C2: on every failure response the file, line, function and class counts
\* are zero and the token estimate is the fixed value 100.
C2_CountsZeroEstimateFixed ==
  isFailureResponse =>
    /\ bcResponse.metadata.totalFiles = 0
    /\ bcResponse.metadata.totalLines = 0
    /\ bcResponse.metadata.totalFunctions = 0
    /\ bcResponse.metadata.totalClasses = 0
    /\ bcResponse.metadata.estimatedTokens = ErrorTokenEstimate

\* the catch block answered an exception, on a root that exists, with a
\* failure response whose document is not 100 tokens long
C2_Witness ==
  /\ isFailureResponse
  /\ bcFailure.occurred
  /\ bcLocals.normalizedPath # <<>>
  /\ bcResponse.metadata.totalFiles = 0
  /\ bcResponse.metadata.estimatedTokens = ErrorTokenEstimate
  /\ estimateTokenCount(bcResponse.formattedContext) # ErrorTokenEstimate

\* C3 as stated: the compressionLevel of every response is "full",
\* "compressed" or "error".
C3_LevelOfThree ==
  returned => bcResponse.compressionLevel \in {"full", "compressed", "error"}

\* C3: the compressionLevel of every response is "error", or "compressed"
\* when the request has a token limit, or else the request's completeness
\* option itself ("partial", "full" or "exhaustive"), "full" when it is absent.
C3_LevelIsCompletenessOrOutcome ==
  returned =>
    \/ bcResponse.compressionLevel = "error"
    \/ /\ bcResponse.compressionLevel = "compressed"
       /\ hasTokenLimit(bcOptions)
    \/ bcResponse.compressionLevel =
         (IF bcOptions.completeness = "undefined" THEN "full" ELSE bcOptions.completeness)

\* a request with completeness "exhaustive" was answered with files and
\* compressionLevel "exhaustive"
C3_Witness ==
  /\ returned
  /\ bcOptions.completeness = "exhaustive"
  /\ bcResponse.compressionLevel = "exhaustive"
  /\ bcResponse.filesIncluded # <<>>

\* n is the least integer not below len / 4
isCeilingOfQuarter(n, len) == 4 * (n - 1) < len /\ len <= 4 * n

\* the documents of the current call: the formatter's output and the returned one
bcDocuments ==
  {bcLocals.formattedContext} \cup (IF returned THEN {bcResponse.formattedContext} ELSE {})

\* C11: estimateTokenCount(s) is ceil(length(s) / 4), 0 for the empty string,
\* and on every response that is not a failure response tokenCount and
\* metadata.estimatedTokens are that estimate of the document returned.
C11_TokenCountIsCeiling ==
  /\ estimateTokenCount(<<>>) = 0
  /\ \A doc \in bcDocuments : isCeilingOfQuarter(estimateTokenCount(doc), Len(doc))
  /\ (returned /\ ~isFailureResponse) =>
       /\ isCeilingOfQuarter(bcResponse.tokenCount, Len(bcResponse.formattedContext))
       /\ bcResponse.metadata.estimatedTokens = bcResponse.tokenCount

\* a compressed document whose length is no multiple of 4 was returned, with
\* its own estimate and not that of the formatter's output
C11_Witness ==
  /\ returned
  /\ bcResponse.compressionLevel = "compressed"
  /\ bcResponse.formattedContext # bcLocals.formattedContext
  /\ Len(bcResponse.formattedContext) % 4 # 0
  /\ bcResponse.tokenCount = estimateTokenCount(bcResponse.formattedContext)
  /\ bcResponse.tokenCount # estimateTokenCount(bcLocals.formattedContext)


\* whether the formatter's output is estimated above the maxTokens of the call
overBudget ==
  bcOptions.maxTokens.defined
    /\ estimateTokenCount(bcLocals.formattedContext) > bcOptions.maxTokens.value

\* C12: compression is applied only when the estimate of the formatter's
\* output exceeds maxTokens; then the compressor runs and the level is
\* "compressed"; in every other non-error case the returned document is
\* exactly the formatter's output and the level is not "compressed"
C12_CompressedIffOverBudget ==
  (returned /\ ~isFailureResponse) =>
    IF overBudget
      THEN /\ bcResponse.compressionLevel = "compressed"
           /\ bcResponse.formattedContext =
                intelligentCompression(bcLocals.formattedContext,
                                       bcOptions.maxTokens.value)
      ELSE /\ bcResponse.compressionLevel # "compressed"
           /\ bcResponse.formattedContext = bcLocals.formattedContext

\* what validateProjectRoot answers to the root of the current call
bcValidation == validateProjectRoot(bcOptions.projectRoot, fsFiles)

\* the call names a root that validateProjectRoot finds invalid
hasInvalidRoot == bcOptions.projectRoot.defined /\ ~bcValidation.valid

\* no indexProject or reindexFiles call was made and the cache is as it was
\* when the call arrived
analyzerUntouched ==
  /\ projectRoot = <<>>
  /\ batches = <<>>
  /\ tasks = <<>>
  /\ cache = <<>>

\* C21: an invalid project root (a missing path, a path that is not a
\* directory, an unreadable directory, a directory with no recognizable
\* source file) is detected before indexing: the call returns the error
\* response, which carries the validation message and with it the normalized
\* path, indexProject is never invoked and the analyzer cache is unchanged
C21_InvalidRootNotIndexed ==
  (hasInvalidRoot /\ bcPc # "called") =>
    /\ returned
    /\ ~bcFailure.occurred
    /\ bcResponse.compressionLevel = "error"
    /\ bcResponse.filesIncluded = <<>>
    /\ includes(bcResponse.formattedContext, bcValidation.message)
    /\ includes(bcValidation.message, bcValidation.normalizedPath)
    /\ bcResponse.folderTree =
         generateFolderTree(rootOf(bcValidation.normalizedPath), fsFiles).text
    /\ analyzerUntouched

\* a relative root that resolves to a path where nothing is was answered with
\* the error response, whose document names the normalized path
C21_Witness ==
  /\ returned
  /\ hasInvalidRoot
  /\ bcValidation.normalizedPath # bcOptions.projectRoot.value
  /\ ~existsSync(bcValidation.normalizedPath, fsFiles)
  /\ bcResponse.compressionLevel = "error"
  /\ includes(bcResponse.formattedContext, bcValidation.normalizedPath)
  /\ analyzerUntouched

\* the output of the first tier of intelligentCompression on the formatter's
\* output
firstTierOutput == moderateCompression(bcLocals.formattedContext)

\* C23: the first tier of the compression never increases the size: for
\* every formatted document its output is at most as long as the document,
\* also when the file blocks hold only lines the first tier keeps
C23_FirstTierNeverLonger ==
  (returned /\ bcResponse.compressionLevel = "compressed") =>
    Len(firstTierOutput) <= Len(bcLocals.formattedContext)

\* what the first tier adds is never more than one character per section
\* and the separator between file blocks
C23_FirstTierGrowthIsSeparators ==
  (returned /\ bcResponse.compressionLevel = "compressed") =>
    Len(firstTierOutput) <=
      Len(bcLocals.formattedContext)
        + Len(splitBy(bcLocals.formattedContext, <<"\n","#","#"," ">>))
        + Len(<<"\n","\n","-","-","-","\n","\n">>) * Len(bcLocals.relevantFiles)

\* the ranking of the current call ran and kept no file
rankedNothing ==
  /\ bcPc \in {"formatted", "returned", "rejected"}
  /\ bcLocals.formattedContext # <<>>
  /\ bcLocals.relevantFiles = <<>>

\* the document formatContextForFiles makes of an empty list
emptyDocument == formatContextForFiles(<<>>, NoGraph, NoPatterns, bcOptions.query)

\* C26: when the ranking yields no file for a valid project (no typescript
\* or javascript file is indexed, or the scope filter removes every
\* candidate) buildCompleteContext completes on its normal path: it returns
\* the "No relevant files found" document with an empty filesIncluded list,
\* zero totals and a compressionLevel other than "error"
C26_NoFilesIsNoError ==
  (rankedNothing /\ bcPc # "formatted") =>
    /\ returned
    /\ bcResponse.compressionLevel # "error"
    /\ includes(bcResponse.formattedContext, <<"N","o"," ","r","e","l","e","v","a","n","t"," ","f","i","l","e","s"," ","f","o","u","n","d">>)
    /\ bcResponse.filesIncluded = <<>>
    /\ bcResponse.totalLines = 0
    /\ bcResponse.metadata.totalFiles = 0

\* what the code does then: the formatter makes the document of the empty
\* list, the reduce of the language counts throws, and the catch block
\* answers with the error response that carries the message of the reduce
C26_NoFilesIsReduceError ==
  (rankedNothing /\ bcPc # "formatted") =>
    /\ returned
    /\ bcLocals.formattedContext = emptyDocument
    /\ includes(emptyDocument, <<"N","o"," ","r","e","l","e","v","a","n","t"," ","f","i","l","e","s"," ","f","o","u","n","d">>)
    /\ bcFailure.occurred
    /\ bcFailure.message = primaryLanguageOf(<<>>).message
    /\ bcResponse.compressionLevel = "error"
    /\ includes(bcResponse.formattedContext, bcFailure.message)

\* the scope filter removed every candidate of a project with source files
C26_ScopeRemovedAll ==
  /\ rankedNothing
  /\ returned
  /\ bcOptions.scope = "class"
  /\ cache # <<>>
  /\ \E k \in 1..Len(cache) : isPrimaryLanguage(cache[k]) /\ cache[k].functions # <<>>

(***************************************************************************)
(* Properties of the compression                                           *)
(***************************************************************************)

compressionReturned(method) == callPc = "returned" /\ call.method = method

C13_FirstTierSuffices ==
  /\ compressionReturned("intelligentCompression")
  /\ estimateTokenCount(moderateCompression(call.context)) <= call.maxTokens
  /\ callResult.text # call.context

\* C14: for every text the output of the second tier is not estimated above
\* its input, so the result of the second tier never has a higher token
\* estimate than the result of the first tier it was computed from
C14_SecondTierNeverLarger ==
  /\ compressionReturned("aggressiveCompression") =>
       /\ Len(callResult.text) <= Len(call.context)
       /\ estimateTokenCount(callResult.text) <= estimateTokenCount(call.context)
  /\ compressionReturned("intelligentCompression") =>
       estimateTokenCount(callResult.text)
         <= estimateTokenCount(moderateCompression(call.context))

\* a second tier that was given the output of the first tier and dropped
\* lines of it
C14_Witness ==
  /\ compressionReturned("aggressiveCompression")
  /\ \E text \in CompressionSamples :
       /\ call.context = moderateCompression(text)
       /\ call.context # text
  /\ estimateTokenCount(callResult.text) < estimateTokenCount(call.context)

(***************************************************************************)
(* Properties of the validator                                             *)
(***************************************************************************)

validated == callPc = "returned" /\ call.method = "validateCompleteness"

\* the five validations of the call
callValidations == seq(validationsOf(call.context, analyzeQuery(call.query)))

\* five scores within [0,1] whose weights sum to 1
areWithinUnit(validations) ==
  /\ Len(validations) = 5
  /\ \A i \in 1..5 : validations[i].score \in 0..FullScore
  /\ totalWeightOf(validations) = 100

\* the scores of the validations from the first to the n-th are at least score
scoreAtLeast(validations, n, score) == \A i \in 1..n : validations[i].score >= score

\* C15: for every document and query completenessScore and confidenceScore
\* are within [0,1], each of the five heuristic scores is within [0,1] and
\* the five weights sum to 1.0; the multipliers of the confidence (0.7 for a
\* length below 1000, 1.1 for a length above 10000, 1.05 for three code
\* blocks or more) never push confidenceScore above 1
C15_ScoresWithinUnit ==
  validated =>
    /\ callResult.completenessScore \in 0..100
    /\ callResult.confidenceScore \in 0..100
    /\ areWithinUnit(callValidations)

\* a document longer than 10000 characters with three code blocks or more
\* whose confidence the two multipliers would carry above 1
C15_Witness ==
  /\ validated
  /\ Len(call.context) > 10000
  /\ countCodeBlocks(call.context, 1) >= 3
  /\ callResult.completenessScore * 11 * 105 > 100 * 10 * 100
  /\ callResult.confidenceScore = 100

\* C16: in every result isComplete is true if and only if the returned
\* completenessScore is at least 0.8 and the returned, de-duplicated
\* missingElements has fewer than 3 entries
C16_CompleteIffScoreAndFewMissing ==
  validated =>
    (callResult.isComplete <=>
       (callResult.completenessScore >= 80 /\ Len(callResult.missingElements) < 3))

\* a result whose score is at least 0.8 and that is not complete, three
\* elements missing
C16_Witness ==
  /\ validated
  /\ callResult.completenessScore >= 80
  /\ Len(callResult.missingElements) = 3
  /\ ~callResult.isComplete

\* a result that is complete
C16_Complete == validated /\ callResult.isComplete /\ Len(callResult.missingElements) = 2

\* number of markdown headers of any level
countAllHeaders(context) ==
  Cardinality({i \in 1..Len(context) :
                 /\ i = 1 \/ context[i - 1] = "\n"
                 /\ \E n \in 1..6 : startsWithAt(context, seq([k \in 1..n |-> "#"]) \o <<" ">>, i)})

\* the document of the example: 5 code blocks, "Dependencies" and
\* "Usage Pattern" text, 4 headers, "Summary" and "Insights"
isExampleDocument(context) ==
  /\ countCodeBlocks(context, 1) = 5
  /\ includes(context, <<"D","e","p","e","n","d","e","n","c","i","e","s">>)
  /\ includes(context, <<"U","s","a","g","e"," ","P","a","t","t","e","r","n">>)
  /\ countAllHeaders(context) = 4
  /\ includes(context, <<"S","u","m","m","a","r","y">>)
  /\ includes(context, <<"I","n","s","i","g","h","t","s">>)

\* every keyword of the query occurs in the document
keywordsOccur(context, keywords) ==
  \A i \in 1..Len(keywords) : includes(toLowerCase(context), toLowerCase(keywords[i]))

\* C17 as stated: the document of the example, validated against a query
\* whose every keyword occurs in it, scores every one of the five heuristics
\* at 0.9 or more and is complete
C17_ExampleIsComplete ==
  (validated /\ isExampleDocument(call.context)
     /\ keywordsOccur(call.context, analyzeQuery(call.query).keywords)) =>
    /\ scoreAtLeast(callValidations, 5, tenths(9))
    /\ callResult.isComplete

\* what the example leaves out: a "Dependency Graph", "File Contents", an
\* import, headers of level 1 or 2, and a query with a keyword
isFullDocument(context) ==
  /\ isExampleDocument(context)
  /\ includes(context, <<"D","e","p","e","n","d","e","n","c","y"," ","G","r","a","p","h">>)
  /\ includes(context, <<"F","i","l","e"," ","C","o","n","t","e","n","t","s">>)
  /\ includes(context, <<"i","m","p","o","r","t">>)
  /\ countHeaders(context) = 4

\* C17: a document with 5 code blocks, "Dependencies", "Dependency Graph" and
\* "Usage Pattern" text, an import, 4 headers of level 1 or 2, "File
\* Contents", "Summary" and "Insights", validated against a query that has a
\* keyword and whose every keyword occurs in it, scores the code, dependency,
\* structural and coherence heuristics at 1.0 and is complete
C17_FullDocumentIsComplete ==
  (validated /\ isFullDocument(call.context)
     /\ analyzeQuery(call.query).keywords # <<>>
     /\ keywordsOccur(call.context, analyzeQuery(call.query).keywords)) =>
    /\ scoreAtLeast(callValidations, 4, FullScore)
    /\ callResult.isComplete

\* such a document found complete although its usage heuristic scores 0
C17_Witness ==
  /\ validated
  /\ isFullDocument(call.context)
  /\ analyzeQuery(call.query).keywords # <<>>
  /\ keywordsOccur(call.context, analyzeQuery(call.query).keywords)
  /\ callValidations[5].score = 0
  /\ callResult.isComplete

(***************************************************************************)
(* Properties of the formatter                                             *)
(***************************************************************************)

formatted == callPc = "returned" /\ call.method = "formatContextForFiles"

\* the headings of the sections of the full document
TemplateHeadings ==
  {<<"#"," ","C","o","m","p","l","e","t","e"," ","P","r","o","j","e","c","t"," ","C","o","n","t","e","x","t"," ","A","n","a","l","y","s","i","s">>, <<"*","*","Q","u","e","r","y",":","*","*">>, <<"#","#"," ","A","r","c","h","i","t","e","c","t","u","r","e"," ","O","v","e","r","v","i","e","w">>,
   <<"#","#"," ","R","e","l","e","v","a","n","t"," ","F","i","l","e","s"," ","S","t","r","u","c","t","u","r","e">>, <<"#","#"," ","C","o","m","p","l","e","t","e"," ","F","i","l","e"," ","C","o","n","t","e","n","t","s">>,
   <<"#","#"," ","D","e","p","e","n","d","e","n","c","y"," ","R","e","l","a","t","i","o","n","s","h","i","p","s">>, <<"#","#"," ","U","s","a","g","e"," ","P","a","t","t","e","r","n","s"," ","&"," ","I","n","s","i","g","h","t","s">>}

\* C18: formatContextForFiles called with an empty or absent list of files
\* returns exactly the document that says no relevant files were found for
\* the query, a title and one line naming the query, and none of the sections
\* of the full document, whatever graph and usage facts are passed
C18_EmptyListGivesEmptyDocument ==
  (formatted /\ call.files.value = <<>>) =>
    /\ callResult.text =
         <<"#"," ","E","m","p","t","y"," ","P","r","o","j","e","c","t"," ","C","o","n","t","e","x","t","\n","\n","N","o"," ","r","e","l","e","v","a","n","t"," ","f","i","l","e","s"," ","f","o","u","n","d"," ","f","o","r"," ","q","u","e","r","y",":"," ","\"">>
           \o (IF call.query = <<>> THEN <<"u","n","k","n","o","w","n">> ELSE call.query) \o <<"\"">>
    /\ \A heading \in TemplateHeadings : ~includes(callResult.text, heading)

\* a call with an empty list, a query, and the graph and usage facts of two
\* files
C18_Witness ==
  /\ formatted
  /\ call.files = filesOf(<<>>)
  /\ call.query # <<>>
  /\ Len(call.dependencyGraph.nodes) = 2
  /\ call.usagePatterns.defined
  /\ includes(callResult.text, call.query)

\* a call without a list of files
C18_Absent == formatted /\ ~call.files.defined /\ callResult.text # <<>>

(***************************************************************************)
(* Properties of the dependency graph                                      *)
(***************************************************************************)

graphBuilt == callPc = "returned" /\ call.method = "buildDependencyGraph"

\* whether a file is one an import path may stand for
isImportOf(file, importPath) ==
  \/ includes(file.relativePath, importPath)
  \/ file.relativePath = importPath \o <<".","t","s">>
  \/ file.relativePath = importPath \o <<".","j","s">>

\* the imports of the files, in the order of the files and of their imports,
\* as pairs of the number of the file and the number of the import
importPairs(files) ==
  flatten(seq([k \in 1..Len(files) |->
                 seq([i \in 1..Len(files[k].imports) |-> <<k, i>>])]))

\* the pairs whose import stands for one of the files
matchedPairs(files) ==
  SelectSeq(importPairs(files),
            LAMBDA pair : \E j \in 1..Len(files) :
                            isImportOf(files[j], files[pair[1]].imports[pair[2]].path))

\* whether the edge is that of the pair: from its file to the first file its
\* import stands for
isEdgeOf(edge, files, pair) ==
  /\ edge.source = files[pair[1]].relativePath
  /\ \E j \in 1..Len(files) :
       /\ isImportOf(files[j], files[pair[1]].imports[pair[2]].path)
       /\ \A earlier \in 1..(j - 1) :
            ~isImportOf(files[earlier], files[pair[1]].imports[pair[2]].path)
       /\ edge.target = files[j].relativePath

\* what C24 says of the graph of a list of files
isGraphOf(graph, files, matched) ==
  /\ Len(graph.nodes) = Len(files)
  /\ \A k \in 1..Len(files) : graph.nodes[k].id = files[k].relativePath
  /\ \A e \in 1..Len(graph.edges) :
       /\ \E k \in 1..Len(files) : graph.nodes[k].id = graph.edges[e].source
       /\ \E k \in 1..Len(files) : graph.nodes[k].id = graph.edges[e].target
  /\ Len(graph.edges) = Len(matched)
  /\ \A e \in 1..Len(matched) : isEdgeOf(graph.edges[e], files, matched[e])
  /\ Len(graph.edges) <= Len(importPairs(files))

\* C24: the dependency graph of a ranked list has one node per file, whose
\* id is the relative path; the source and target of every edge are ids of
\* its nodes; each import of each file yields at most one edge, to the first
\* file whose relative path contains the import path or is it with ".ts" or
\* ".js", and an import no file matches yields none, so the edges are never
\* more than the import records of the files
C24_GraphOfRankedFiles ==
  graphBuilt => isGraphOf(callResult, call.files, matchedPairs(call.files))

\* a graph of three files in which an import that two files match has its
\* edge to the first of them, an import no file matches has none, and two
\* imports of one path have an edge each
C24_Witness ==
  /\ graphBuilt
  /\ Len(call.files) = 3
  /\ call.files[1].relativePath = <<"s","r","c","/","f","o","o",".","t","s">>
  /\ call.files[2].relativePath = <<"l","i","b","/","B","a","r",".","j","s">>
  /\ call.files[3].relativePath = <<"l","i","b","/","B","a","r",".","t","s">>
  /\ Len(importPairs(call.files)) = 4
  /\ Len(callResult.edges) = 3
  /\ callResult.edges[1].target = <<"l","i","b","/","B","a","r",".","j","s">>
  /\ callResult.edges[2].source = <<"l","i","b","/","B","a","r",".","t","s">>
  /\ callResult.edges[3] = callResult.edges[2]

(***************************************************************************)
(* Properties of the file watcher                                          *)
(***************************************************************************)

\* a sequence that lists no element twice
hasNoDuplicate(s) == \A i, j \in 1..Len(s) : s[i] = s[j] => i = j

\* an invocation of onChange that hands over one batch: some paths, each
\* once, those that had an event since the batch before, after a pause of
\* the debounce interval
isDebouncedBatch(invocation) ==
  /\ invocation.changedFiles # <<>>
  /\ hasNoDuplicate(invocation.changedFiles)
  /\ Range(invocation.changedFiles) = Range(invocation.emitted)
  /\ invocation.idle >= DebounceTicks

\* watcher k has emitted an event for filePath that no batch has delivered
isAwaited(k, filePath) ==
  k <= Len(watchers) /\ filePath \in Range(watchers[k].emitted)

\* a batch of watcher k has delivered filePath and nothing of it is awaited
isDelivered(k, filePath) ==
  /\ k <= Len(watchers)
  /\ filePath \notin Range(watchers[k].emitted)
  /\ \E b \in 1..Len(onChangeCalls) :
       /\ onChangeCalls[b].watcher = k
       /\ filePath \in Range(onChangeCalls[b].changedFiles)

\* close was called on watcher k
isClosed(k) == k <= Len(watchers) /\ watchers[k].closed

\* C22: the add, change and unlink events of a watcher are conflated into
\* batches: no batch is empty or lists a path twice, a batch holds exactly
\* the paths that had an event since the batch before, no batch is delivered
\* before the events have paused for the debounce interval, and once they
\* pause every path that had an event is delivered, in the next batch, while
\* the watcher is active
C22_EventsDeliveredInBatches ==
  /\ [](\A b \in 1..Len(onChangeCalls) : isDebouncedBatch(onChangeCalls[b]))
  /\ \A k \in 1..MaxWatcherCalls, filePath \in ChangedFiles :
       isAwaited(k, filePath) ~> (isDelivered(k, filePath) \/ isClosed(k))

\* an active watcher emitted three events for two paths, the later ones
\* within the debounce interval, and delivered them as one batch of two
C22_Witness ==
  \E b \in 1..Len(onChangeCalls) :
    /\ Len(onChangeCalls[b].emitted) = 3
    /\ Len(onChangeCalls[b].changedFiles) = 2
    /\ ~watchers[onChangeCalls[b].watcher].closed
    /\ Len(watchers[onChangeCalls[b].watcher].timers) = 3
    /\ watchers[onChangeCalls[b].watcher].timers[1].state = "cleared"
    /\ watchers[onChangeCalls[b].watcher].timers[1].remaining > 0
    /\ isDelivered(onChangeCalls[b].watcher, onChangeCalls[b].changedFiles[1])

\* C28: once stopWatching() has resolved, or once a later watch() call has
\* replaced the watcher, the onChange callback registered by the earlier
\* watch() is never invoked again, even if changes were queued and a
\* debounce timer was pending at that moment
C28_NoBatchAfterStop ==
  \A b \in 1..Len(onChangeCalls) : ~onChangeCalls[b].retired

\* the batches that are delivered after that moment are those of a watcher
\* that was closed with paths in its queue and its timer pending
C28_LateBatchIsOfClosedWatcher ==
  \A b \in 1..Len(onChangeCalls) :
    onChangeCalls[b].retired =>
      /\ watchers[onChangeCalls[b].watcher].closed
      /\ isDebouncedBatch(onChangeCalls[b])

(***************************************************************************)
(* Properties of the analyzer's dependency graph                           *)
(***************************************************************************)

dependenciesReturned ==
  callPc = "returned" /\ call.method = "analyzer.buildDependencyGraph"

\* no file matches the target: findFile's three tests and the fallback all
\* look for the target inside a path or a relativePath
matchesNoFile(target) ==
  \A k \in 1..Len(cache) :
    ~includes(cache[k].relativePath, target) /\ ~includes(cache[k].path, target)

\* C30: buildDependencyGraph(target) terminates for every cache content,
\* including files whose imports form cycles or import themselves: the
\* recursive collection visits each file at most once and to a depth of at
\* most 6 levels (0 to 5), the returned dependencies list contains no
\* duplicates, and when no file matches the target it returns empty
\* dependencies, dependents, nodes and edges.  Termination is the bound on
\* the calls of collectDependencies: one for the target and at most one for
\* each cached file
C30_CollectionIsBounded ==
  dependenciesReturned =>
       /\ hasNoDuplicate(seq([k \in 1..Len(callResult.visits) |-> callResult.visits[k].path]))
       /\ \A k \in 1..Len(callResult.visits) : callResult.visits[k].depth \in 0..5
       /\ callResult.calls <= Len(cache) + 1
       /\ hasNoDuplicate(callResult.dependencies)
       /\ matchesNoFile(call.target) =>
            /\ callResult.dependencies = <<>> /\ callResult.dependents = <<>>
            /\ callResult.nodes = <<>> /\ callResult.edges = <<>>

\* a call on a cycle in which a file imports itself: the collection stops at
\* depth 5, names the file at the sixth step without following it, and comes
\* back to a file already visited
C30_Witness ==
  /\ dependenciesReturned
  /\ call.target = <<"a">>
  /\ arrayIncludes(cache[1].dependencies, <<"a">>)
  /\ \E k \in 1..Len(callResult.visits) : callResult.visits[k].depth = MaxDepth
  /\ Len(callResult.dependencies) > Len(callResult.visits)
  /\ callResult.calls > Len(callResult.visits)
  /\ arrayIncludes(callResult.dependencies, callResult.target)

\* a call whose target no file matches
C30_NoMatch ==
  /\ dependenciesReturned
  /\ matchesNoFile(call.target)
  /\ callResult.target = call.target
  /\ callResult.nodes = <<>>

====
